---- MODULE Spec2Model ----
(***************************************************************************)
(* Subtitle dialogue pipeline of movie_translator: the translation         *)
(* orchestrator (translation/translator.py with translation/enhancements.py)*)
(* the English track selector (subtitles/extractor.py), the dialogue       *)
(* extractor (subtitles/parser.py) with the pipeline step that calls it    *)
(* (pipeline.py), the subtitle writer (subtitles/writer.py and the script  *)
(* clean_pipeline.py), the timing validators (subtitles/validator.py and   *)
(* subtitles/processor.py), the run over files (main.py, translate.py) and *)
(* the two transforms of the enhancer on their own.                        *)
(*                                                                         *)
(* Texts are TLA+ strings; a character is a string of length 1.  Strings   *)
(* are ASCII: the Polish diacritics of the phrase tables are written with  *)
(* the repository's own POLISH_CHAR_MAP folding (types.py), and the        *)
(* ellipsis character of the punctuation class is left out.                *)
(***************************************************************************)
EXTENDS Integers, Sequences, FiniteSets, TLC

\* ------------------------------------------------------------------------
\* State
\* ------------------------------------------------------------------------

VARIABLES
    dialogue_lines,       \* translate_dialogue_lines: the input list of DialogueLine
    batch_size,           \* SubtitleTranslator.batch_size
    enable_enhancements,  \* SubtitleTranslator.enable_enhancements
    model_key,            \* SubtitleTranslator.model_key
    pc,                   \* where the call is: start, translating, returned, raised
    i,                    \* translate_texts: the loop offset into texts
    translations,         \* translate_texts: the list built so far
    calls,                \* every backend call made: the texts sent and decoded
    preprocessing_stats,  \* SubtitleTranslator.preprocessing_stats
    progress_callback,    \* translate_texts: whether a progress callback is supplied
    run,                  \* the number of translate_texts runs on this translator
    progress_log,         \* the (batch_num, total_batches) the callback received
    returned_lines,       \* what translate_dialogue_lines returned
    error,                \* none, or what ended the call abnormally
    track_info,           \* find_english_track: the tracks of the container
    enable_ocr,           \* SubtitleExtractor.enable_ocr
    ocr_available,        \* what SubtitleOCR.check_availability() answers
    sel_pc,               \* where find_english_track is: start, done
    eng_track,            \* the position in track_info of the track returned, 0 for None
    subs,                 \* extract_dialogue_lines: the events of the loaded document
    ev_pos,               \* _deduplicate_events: the number of events scanned
    unique_subs,          \* _deduplicate_events: the list of kept events
    last_text,            \* _deduplicate_events: << >> for None, or <<text>>
    current_group_start,  \* _deduplicate_events
    current_group_end,    \* _deduplicate_events
    ext_pc,               \* where the pipeline is: dedup, filter, parsed, translate,
                          \* stopped, written; legacy_parsed, legacy_written;
                          \* validated, timing_gap, proc_validated, proc_mismatch
    extracted,            \* what extract_dialogue_lines returned
    clean_subs,           \* the events of the document the writer saved
    legacy_lines,         \* clean_pipeline.py: what its extract_dialogue_lines returned
    enh_text,             \* the text given to the enhancer
    enh_pc,               \* idle, or ready once a text is given
    enh_pre,              \* << >>, or <<what preprocess_for_translation returned>>
    enh_post,             \* what the successive postprocess_translation calls returned
    entry,                \* the entry point of the run: main of main.py or of translate.py
    num_files,            \* the number of media files main found
    file_idx,             \* the number of files the loop of main has taken
    run_pc,               \* where main and process_mkv_file are
    extract_rc,           \* the exit status of the container tool for this file, -1 before
    validation,           \* none, or what the timing validation of this file said: passed, gap
    staged,               \* the temporary output of this file: none, built, verified, moved
    video,                \* what the original path of this file holds
    backup,               \* what the backup path of this file holds
    written,              \* whether the original path of this file has been written to
    file_ok,              \* what process_mkv_file returned
    results,              \* what process_mkv_file returned for the files so far
    successful,           \* main: successful
    failed,               \* main: failed
    exit_code             \* the exit code of the process, -1 while it runs

transVars == <<dialogue_lines, batch_size, enable_enhancements, model_key, pc, i,
               translations, calls, preprocessing_stats, progress_callback, run,
               progress_log, returned_lines, error>>

trackVars == <<track_info, enable_ocr, ocr_available, sel_pc, eng_track>>

extVars == <<subs, ev_pos, unique_subs, last_text, current_group_start, current_group_end,
             ext_pc, extracted, clean_subs, legacy_lines>>

enhVars == <<enh_text, enh_pc, enh_pre, enh_post>>

fileVars == <<extract_rc, validation, staged, video, backup, written>>

mainVars == <<entry, num_files, file_idx, results, successful, failed, exit_code>>

runVars == <<run_pc, file_ok, fileVars, mainVars>>

vars == <<transVars, trackVars, extVars, enhVars, runVars>>

\* no run over files is modelled
RunIdle ==
    /\ entry = "main"
    /\ num_files = 0
    /\ file_idx = 0
    /\ run_pc = "idle"
    /\ extract_rc = -1
    /\ validation = "none"
    /\ staged = "none"
    /\ video = "original"
    /\ backup = "none"
    /\ written = FALSE
    /\ file_ok = FALSE
    /\ results = << >>
    /\ successful = 0
    /\ failed = 0
    /\ exit_code = -1

\* ------------------------------------------------------------------------
\* Python str primitives used by the source
\* ------------------------------------------------------------------------

LowerAlpha == "abcdefghijklmnopqrstuvwxyz"
UpperAlpha == "ABCDEFGHIJKLMNOPQRSTUVWXYZ"
Digits == "0123456789"

Min(a, b) == IF a < b THEN a ELSE b

Max(a, b) == IF a > b THEN a ELSE b

\* SubSeq, or "" for an empty range
SliceClamped(s, lo, hi) == IF lo > hi THEN "" ELSE SubSeq(s, lo, hi)

\* the Python slice s[lo-1:hi], positions counted from 1 and clamped to the string
Slice(s, lo, hi) == SliceClamped(s, Max(lo, 1), Min(hi, Len(s)))

\* the character at position n, "" outside the string
CharAt(s, n) == IF 1 <= n /\ n <= Len(s) THEN SubSeq(s, n, n) ELSE ""

\* c in chars, for a character c and a string used as a character class
InClass(c, chars) == \E k \in 1..Len(chars) : CharAt(chars, k) = c

IndexIn(c, chars) == CHOOSE k \in 1..Len(chars) : CharAt(chars, k) = c

\* str.isspace() for one character
IsSpace(c) == c \in {" ", "\t", "\n", "\r"}

\* the characters of the regex class \w
WordChars == "abcdefghijklmnopqrstuvwxyzABCDEFGHIJKLMNOPQRSTUVWXYZ0123456789_"

\* regex \w for one character
IsWordChar(c) == InClass(c, WordChars)

LowerChar(c) == IF InClass(c, UpperAlpha) THEN CharAt(LowerAlpha, IndexIn(c, UpperAlpha)) ELSE c

UpperChar(c) == IF InClass(c, LowerAlpha) THEN CharAt(UpperAlpha, IndexIn(c, LowerAlpha)) ELSE c

RECURSIVE lower(_)
\* str.lower()
lower(s) == IF s = "" THEN "" ELSE LowerChar(CharAt(s, 1)) \o lower(Tail(s))

RECURSIVE upper(_)
\* str.upper()
upper(s) == IF s = "" THEN "" ELSE UpperChar(CharAt(s, 1)) \o upper(Tail(s))

\* str.isupper(): at least one cased character and no lower-case one
isupper(s) ==
    /\ \E k \in 1..Len(s) : InClass(CharAt(s, k), UpperAlpha)
    /\ \A k \in 1..Len(s) : ~InClass(CharAt(s, k), LowerAlpha)

RECURSIVE lstrip(_)
lstrip(s) == IF s /= "" /\ IsSpace(CharAt(s, 1)) THEN lstrip(Tail(s)) ELSE s

RECURSIVE rstrip(_)
rstrip(s) ==
    IF s /= "" /\ IsSpace(CharAt(s, Len(s))) THEN rstrip(Slice(s, 1, Len(s) - 1)) ELSE s

\* str.strip()
strip(s) == rstrip(lstrip(s))

\* the Python test `sub in s`
Contains(s, sub) ==
    \E k \in 1..(Len(s) - Len(sub) + 1) : Slice(s, k, k + Len(sub) - 1) = sub

\* str.startswith
startswith(s, prefix) == Len(prefix) <= Len(s) /\ Slice(s, 1, Len(prefix)) = prefix

\* length of the run of whitespace of s that starts at position p
RECURSIVE SpaceRun(_, _)
SpaceRun(s, p) == IF p <= Len(s) /\ IsSpace(CharAt(s, p)) THEN 1 + SpaceRun(s, p + 1) ELSE 0

\* ------------------------------------------------------------------------
\* translation/enhancements.py
\* ------------------------------------------------------------------------

PHRASE_BASE_MAP ==
    ("yes" :> "tak") @@ ("no" :> "nie") @@ ("maybe" :> "moze") @@ ("wait" :> "czekaj")
    @@ ("stop" :> "stop") @@ ("go" :> "idz") @@ ("help" :> "pomocy")
    @@ ("please" :> "prosze") @@ ("thanks" :> "dzieki") @@ ("sorry" :> "przepraszam")
    @@ ("okay" :> "dobrze") @@ ("ok" :> "ok") @@ ("fine" :> "dobrze") @@ ("sure" :> "jasne")
    @@ ("never" :> "nigdy") @@ ("always" :> "zawsze") @@ ("hello" :> "czesc")
    @@ ("hi" :> "czesc") @@ ("bye" :> "pa") @@ ("goodbye" :> "do widzenia")

MULTI_WORD_PHRASES ==
    ("thank you" :> "dziekuje") @@ ("i see" :> "rozumiem") @@ ("i know" :> "wiem")
    @@ ("of course" :> "oczywiscie") @@ ("excuse me" :> "przepraszam")
    @@ ("good luck" :> "powodzenia")

IDIOM_PATTERNS ==
    << <<"break a leg", "good luck">>,
       <<"raining cats and dogs", "raining heavily">>,
       <<"piece of cake", "very easy">>,
       <<"hit the nail on the head", "exactly right">>,
       <<"let the cat out of the bag", "reveal a secret">>,
       <<"once in a blue moon", "very rarely">>,
       <<"under the weather", "feeling sick">>,
       <<"spill the beans", "reveal a secret">>,
       <<"barking up the wrong tree", "looking in the wrong place">>,
       <<"cost an arm and a leg", "very expensive">> >>

\* the class [.!?,;:] of normalize_for_lookup
LookupPunct == ".!?,;:"

\* the class [.!?] of the postprocessing patterns
TerminalPunct == ".!?"

\* length of the run of characters of the class that ends the string
RECURSIVE TrailingRun(_, _)
TrailingRun(s, chars) ==
    IF s /= "" /\ InClass(CharAt(s, Len(s)), chars)
    THEN 1 + TrailingRun(Slice(s, 1, Len(s) - 1), chars)
    ELSE 0

\* (base.lower(), punct, cap_pattern) of normalize_for_lookup, from the two groups
LookupKey(base, punct) ==
    [base |-> lower(base),
     punct |-> punct,
     cap_pattern |-> IF isupper(base) THEN "UPPER"
                     ELSE IF base /= "" /\ InClass(CharAt(base, 1), UpperAlpha) THEN "Title"
                     ELSE "lower"]

\* the groups of the match when the trailing punctuation run has length k
LookupGroups(stripped, k) ==
    LookupKey(strip(Slice(stripped, 1, Len(stripped) - k)),
              Slice(stripped, Len(stripped) - k + 1, Len(stripped)))

\* ^(.*?)([.!?,;:]+)?$ : the lazy group stops where the rest is all
\* punctuation; '.' does not match a newline, so a text with an inner
\* newline does not match and is taken whole
LookupMatch(stripped) ==
    IF Contains(stripped, "\n") THEN LookupKey(stripped, "")
    ELSE LookupGroups(stripped, TrailingRun(stripped, LookupPunct))

normalize_for_lookup(text) == LookupMatch(strip(text))

apply_formatting(translated, punct, cap_pattern) ==
    (IF cap_pattern = "UPPER" THEN upper(translated)
     ELSE IF cap_pattern = "Title" /\ translated /= ""
          THEN IF Len(translated) > 1
               THEN upper(CharAt(translated, 1)) \o Tail(translated)
               ELSE upper(translated)
     ELSE translated) \o punct

\* \bpattern\b at position p, case-insensitive
IdiomAt(pattern, s, p) ==
    /\ p + Len(pattern) - 1 <= Len(s)
    /\ lower(Slice(s, p, p + Len(pattern) - 1)) = pattern
    /\ (p = 1 \/ ~IsWordChar(CharAt(s, p - 1)))
    /\ (p + Len(pattern) > Len(s) \/ ~IsWordChar(CharAt(s, p + Len(pattern))))

RECURSIVE IdiomSub(_, _, _, _)
\* re.sub(pattern, replacement, s, flags=re.IGNORECASE), scanning from p
IdiomSub(pattern, replacement, s, p) ==
    IF p > Len(s) THEN ""
    ELSE IF IdiomAt(pattern, s, p)
         THEN replacement \o IdiomSub(pattern, replacement, s, p + Len(pattern))
         ELSE CharAt(s, p) \o IdiomSub(pattern, replacement, s, p + 1)

RECURSIVE ApplyIdioms(_, _, _)
\* one turn of the loop over IDIOM_PATTERNS: pattern n gave new_processed
IdiomStep(processed, new_processed, idiom_matched, n) ==
    ApplyIdioms(new_processed, idiom_matched \/ new_processed /= processed, n + 1)

\* the loop over IDIOM_PATTERNS, from pattern number n on
ApplyIdioms(processed, idiom_matched, n) ==
    IF n > Len(IDIOM_PATTERNS) THEN [text |-> processed, idiom_matched |-> idiom_matched]
    ELSE IdiomStep(processed,
                   IdiomSub(IDIOM_PATTERNS[n][1], IDIOM_PATTERNS[n][2], processed, 1),
                   idiom_matched, n)

\* what preprocess_for_translation returns after the loop over IDIOM_PATTERNS
IdiomResult(idioms) ==
    [text |-> idioms.text, was_mapped |-> FALSE,
     hit |-> IF idioms.idiom_matched THEN "idiom" ELSE "none"]

\* preprocess_for_translation once normalize_for_lookup gave the key n
LookupOrIdioms(text, n) ==
    IF n.base \in DOMAIN PHRASE_BASE_MAP
    THEN [text |-> apply_formatting(PHRASE_BASE_MAP[n.base], n.punct, n.cap_pattern),
          was_mapped |-> TRUE, hit |-> "single_word"]
    ELSE IF n.base \in DOMAIN MULTI_WORD_PHRASES
    THEN [text |-> apply_formatting(MULTI_WORD_PHRASES[n.base], n.punct, n.cap_pattern),
          was_mapped |-> TRUE, hit |-> "multi_word"]
    ELSE IdiomResult(ApplyIdioms(text, FALSE, 1))

\* returns (text, was_mapped); hit names the counter the call records
preprocess_for_translation(text) == LookupOrIdioms(text, normalize_for_lookup(text))

\* \1\s*[cls]$ : the group G again at p4..p5-1, whitespace, and the last
\* character of the text in the class
MarkerRepeat(text, cls, G, p4, p5) ==
    /\ p5 - 1 <= Len(text)
    /\ lower(Slice(text, p4, p5 - 1)) = lower(G)
    /\ p5 + SpaceRun(text, p5) = Len(text)
    /\ InClass(CharAt(text, Len(text)), cls)

\* -\s*\1\s*[cls]$ : the second dash at p3, then d whitespace characters
MarkerSecondDash(text, cls, G, p3) ==
    /\ p3 <= Len(text)
    /\ CharAt(text, p3) = "-"
    /\ \E d \in 0..SpaceRun(text, p3 + 1) :
          MarkerRepeat(text, cls, G, p3 + 1 + d, p3 + 1 + d + Len(G))

\* [cls]\s*-\s*\1\s*[cls]$ : the first punctuation at p2
MarkerPunct(text, cls, G, p2) ==
    /\ p2 <= Len(text)
    /\ InClass(CharAt(text, p2), cls)
    /\ MarkerSecondDash(text, cls, G, p2 + 1 + SpaceRun(text, p2 + 1))

\* one way the pattern ^-\s*([^-]+?)\s*[cls]\s*-\s*\1\s*[cls]$ matches: a
\* whitespace characters skipped after the first dash, a group of g characters
DialogueMarkerMatch(text, cls, a, g) ==
    /\ g >= 1
    /\ 1 + a + g <= Len(text)
    /\ CharAt(text, 1) = "-"
    /\ a <= SpaceRun(text, 2)
    /\ ~Contains(Slice(text, 2 + a, 1 + a + g), "-")
    /\ MarkerPunct(text, cls, Slice(text, 2 + a, 1 + a + g),
                   2 + a + g + SpaceRun(text, 2 + a + g))

MaxOf(S) == CHOOSE x \in S : \A y \in S : y <= x

MinOf(S) == CHOOSE x \in S : \A y \in S : x <= y

\* group(1) when a whitespace characters are skipped: the lazy group takes
\* the fewest characters that match
MarkerGroupAt(text, cls, a) ==
    Slice(text, 2 + a,
          1 + a + MinOf({g \in 1..Len(text) : DialogueMarkerMatch(text, cls, a, g)}))

\* the greedy \s* skips the most whitespace that still matches
MarkerGroupIn(text, cls, A) == IF A = {} THEN "" ELSE MarkerGroupAt(text, cls, MaxOf(A))

\* group(1) of the match the regex engine finds first (greedy \s*, lazy
\* group), or "" when the pattern does not match
DialogueMarkerGroup(text, cls) ==
    MarkerGroupIn(text, cls,
        {a \in 0..Len(text) : \E g \in 1..Len(text) : DialogueMarkerMatch(text, cls, a, g)})

\* the two patterns in turn, given group(1) of each
MarkersRemoved(text, exclaimed, terminated) ==
    IF exclaimed /= "" THEN exclaimed \o "!"
    ELSE IF terminated /= "" THEN terminated \o CharAt(text, Len(text))
    ELSE text

_remove_dialogue_markers(text) ==
    MarkersRemoved(text, DialogueMarkerGroup(text, "!"),
                   DialogueMarkerGroup(text, TerminalPunct))

\* length of the run of \w characters of s that starts at position p
RECURSIVE WordRun(_, _)
WordRun(s, p) == IF p <= Len(s) /\ IsWordChar(CharAt(s, p)) THEN 1 + WordRun(s, p + 1) ELSE 0

\* \1([.!?])$ : the word of length k again at q, then the last character
RepetitionTail(text, k, q) ==
    /\ q + k = Len(text)
    /\ lower(Slice(text, q, q + k - 1)) = lower(Slice(text, 1, k))
    /\ InClass(CharAt(text, Len(text)), TerminalPunct)

\* ^(\w+),\s*\1([.!?])$ with a first word of length k
RepetitionRemoved(text, k) ==
    IF /\ k >= 1
       /\ CharAt(text, k + 1) = ","
       /\ RepetitionTail(text, k, k + 2 + SpaceRun(text, k + 2))
    THEN Slice(text, 1, k) \o CharAt(text, Len(text))
    ELSE text

_remove_repetition(text) == RepetitionRemoved(text, WordRun(text, 1))

RECURSIVE CollapsePunct(_)
\* re.sub(r'([.!?])\1+', r'\1', text)
CollapsePunct(s) ==
    IF s = "" THEN ""
    ELSE IF Len(s) >= 2 /\ InClass(CharAt(s, 1), TerminalPunct) /\ CharAt(s, 2) = CharAt(s, 1)
         THEN CollapsePunct(Tail(s))
         ELSE CharAt(s, 1) \o CollapsePunct(Tail(s))

RECURSIVE DropSpaceBeforePunct(_, _)
\* the scan at position p, where a run of r whitespace characters starts
DropSpaceRun(s, p, r) ==
    IF r = 0 THEN CharAt(s, p) \o DropSpaceBeforePunct(s, p + 1)
    ELSE IF p + r <= Len(s) /\ InClass(CharAt(s, p + r), TerminalPunct)
         THEN CharAt(s, p + r) \o DropSpaceBeforePunct(s, p + r + 1)
         ELSE Slice(s, p, p + r - 1) \o DropSpaceBeforePunct(s, p + r)

\* re.sub(r'\s+([.!?])', r'\1', text), scanning from p
DropSpaceBeforePunct(s, p) ==
    IF p > Len(s) THEN "" ELSE DropSpaceRun(s, p, SpaceRun(s, p))

_normalize_punctuation(text) == DropSpaceBeforePunct(CollapsePunct(text), 1)

\* postprocess_translation from `cleaned = text.strip()` on
Cleaned(cleaned) ==
    IF cleaned = "" THEN ""
    ELSE _normalize_punctuation(_remove_repetition(_remove_dialogue_markers(cleaned)))

postprocess_translation(text) == IF text = "" THEN text ELSE Cleaned(strip(text))

\* ------------------------------------------------------------------------
\* Bounds and input sets
\* ------------------------------------------------------------------------

MaxLines == 3

MaxBatch == 2

MaxSafeguardLines == 2

\* texts of the runs that exercise batching
BatchingTexts == {"Hello world", "Yes."}

\* texts of the runs that exercise the per-line safeguards
SafeguardTexts == {"  Monday  ", " abcde ", "Yes.", "THANK YOU!", "a piece of cake"}

\* what the tokenizer may decode from the model's output for one line
Decodings == {"", " \t", " A ", "Ok", "Tak !!"}

ModelKeys == {"allegro", "allegro/BiDi-eng-pol"}

\* ------------------------------------------------------------------------
\* translation/translator.py: SubtitleTranslator
\* ------------------------------------------------------------------------

\* preprocess_for_translation and postprocess_translation on every text and
\* decoding of the runs, computed once
Preprocessed ==
    [t \in BatchingTexts \cup SafeguardTexts |-> preprocess_for_translation(t)]

Postprocessed == [d \in Decodings |-> postprocess_translation(d)]

TRANSLATION_MODELS == {"allegro"}

\* model_config.get('huggingface_id', ''): a key of TRANSLATION_MODELS has no
\* such entry, any other key is taken as the HuggingFace id itself
huggingface_id(key) == IF key \in TRANSLATION_MODELS THEN "" ELSE key

\* 'bidi' in huggingface_id.lower(), for every model key of the runs
BidiModel == [key \in ModelKeys |-> Contains(lower(huggingface_id(key)), "bidi")]

_preprocess_texts(texts, key) ==
    IF BidiModel[key]
    THEN [k \in 1..Len(texts) |-> ">>pol<< " \o texts[k]]
    ELSE texts

\* (processed_texts, skip_indices, cached_translations) from what
\* preprocess_for_translation returned for each text
PreprocessingResult(pre) ==
    [processed_texts |-> [k \in DOMAIN pre |-> pre[k].text],
     skip_indices |-> {k \in DOMAIN pre : pre[k].was_mapped},
     cached_translations |-> [k \in {m \in DOMAIN pre : pre[m].was_mapped} |-> pre[k].text]]

_apply_preprocessing(texts) ==
    PreprocessingResult([k \in 1..Len(texts) |-> Preprocessed[texts[k]]])

_apply_postprocessing(decoded) ==
    [k \in 1..Len(decoded) |-> Postprocessed[decoded[k]]]

\* _apply_fallbacks measuring the original without trimming it
_apply_fallbacks_untrimmed(originals, translated, skip_indices, cached_translated) ==
    [k \in 1..Len(originals) |->
        IF k \in skip_indices
        THEN IF k \in DOMAIN cached_translated THEN cached_translated[k]
             ELSE translated[k]
        ELSE IF strip(translated[k]) = "" THEN originals[k]
        ELSE IF Len(strip(translated[k])) < 2 /\ Len(originals[k]) > 5
             THEN originals[k]
        ELSE translated[k]]

\* _apply_fallbacks testing the candidate before looking at skip_indices
_apply_fallbacks_safeguard_first(originals, translated, skip_indices, cached_translated) ==
    [k \in 1..Len(originals) |->
        IF strip(translated[k]) = "" THEN originals[k]
        ELSE IF Len(strip(translated[k])) < 2 /\ Len(strip(originals[k])) > 5
             THEN originals[k]
        ELSE IF k \in skip_indices
        THEN IF k \in DOMAIN cached_translated THEN cached_translated[k]
             ELSE translated[k]
        ELSE translated[k]]

_apply_fallbacks(originals, translated, skip_indices, cached_translated) ==
    [k \in 1..Len(originals) |->
        IF k \in skip_indices
        THEN IF k \in DOMAIN cached_translated THEN cached_translated[k]
             ELSE translated[k]
        ELSE IF strip(translated[k]) = "" THEN originals[k]
        ELSE IF Len(strip(translated[k])) < 2 /\ Len(strip(originals[k])) > 5
             THEN originals[k]
        ELSE translated[k]]

\* the texts _translate_batch hands to the tokenizer and the model
BatchSent(texts, enable, key) ==
    _preprocess_texts(IF enable THEN _apply_preprocessing(texts).processed_texts ELSE texts,
                      key)

\* _translate_batch with enhancements, from the preprocessing result on
EnhancedBatch(texts, pre, decoded) ==
    _apply_fallbacks(texts, decoded, pre.skip_indices, pre.cached_translations)

\* _translate_batch, given what the tokenizer decoded from the model's output
_translate_batch(texts, raw_decoded, enable) ==
    IF enable
    THEN EnhancedBatch(texts, _apply_preprocessing(texts), _apply_postprocessing(raw_decoded))
    ELSE _apply_fallbacks(texts, raw_decoded, {}, << >>)

\* the counters after one call of preprocess_for_translation
RecordHit(stats, hit) ==
    IF hit = "single_word"
    THEN [stats EXCEPT !.single_word_hits = @ + 1, !.total_processed = @ + 1]
    ELSE IF hit = "multi_word"
    THEN [stats EXCEPT !.multi_word_hits = @ + 1, !.total_processed = @ + 1]
    ELSE IF hit = "idiom"
    THEN [stats EXCEPT !.idiom_hits = @ + 1, !.total_processed = @ + 1]
    ELSE [stats EXCEPT !.total_processed = @ + 1]

RECURSIVE RecordStats(_, _, _)
\* PreprocessingStats after preprocess_for_translation ran on texts[k..]
RecordStats(stats, texts, k) ==
    IF k > Len(texts) THEN stats
    ELSE RecordStats(RecordHit(stats, Preprocessed[texts[k]].hit), texts, k + 1)

LineStart(k) == (k - 1) * 1500

LineEnd(k) == LineStart(k) + 1000 + 100 * k

LinesOver(T, m) ==
    UNION {{[k \in 1..n |-> [start_ms |-> LineStart(k), end_ms |-> LineEnd(k), text |-> f[k]]] :
                f \in [1..n -> T]} : n \in 0..m}

\* ------------------------------------------------------------------------
\* translation/translator.py: translate_dialogue_lines and translate_texts
\* ------------------------------------------------------------------------

\* texts = [line.text for line in dialogue_lines]
texts == [k \in 1..Len(dialogue_lines) |-> dialogue_lines[k].text]

\* (len(texts) + batch_size - 1) // batch_size
total_batches == (Len(texts) + batch_size - 1) \div batch_size

\* batch_num counted from 0
batch_num_from_zero == i \div batch_size

\* batch_num = i // self.batch_size + 1
batch_num == i \div batch_size + 1

\* the slice texts[i : i + batch_size - 1], one line short
batch_texts_short == SubSeq(texts, i + 1, Min(i + batch_size, Len(texts)) - 1)

\* texts[i : i + batch_size]
batch_texts == SubSeq(texts, i + 1, Min(i + batch_size, Len(texts)))

NoStats == [single_word_hits |-> 0, multi_word_hits |-> 0, idiom_hits |-> 0,
            total_processed |-> 0]

InitTranslation ==
    /\ dialogue_lines \in LinesOver(BatchingTexts, MaxLines)
                          \cup LinesOver(SafeguardTexts, MaxSafeguardLines)
    /\ batch_size \in 1..MaxBatch
    /\ enable_enhancements \in BOOLEAN
    /\ model_key \in ModelKeys
    /\ pc = "start"
    /\ i = 0
    /\ translations = << >>
    /\ calls = << >>
    /\ preprocessing_stats = NoStats
    /\ progress_callback = TRUE
    /\ run = 1
    /\ progress_log = << >>
    /\ returned_lines = << >>
    /\ error = "none"
    /\ track_info = << >>
    /\ enable_ocr = FALSE
    /\ ocr_available = FALSE
    /\ sel_pc = "idle"
    /\ eng_track = 0
    /\ subs = << >>
    /\ ev_pos = 0
    /\ unique_subs = << >>
    /\ last_text = << >>
    /\ current_group_start = 0
    /\ current_group_end = 0
    /\ ext_pc = "idle"
    /\ extracted = << >>
    /\ clean_subs = << >>
    /\ legacy_lines = << >>
    /\ enh_text = ""
    /\ enh_pc = "idle"
    /\ enh_pre = << >>
    /\ enh_post = << >>
    /\ RunIdle

\* translate_dialogue_lines: load_model() returns False, the call returns []
LoadModelFails ==
    /\ pc = "start"
    /\ pc' = "returned"
    /\ error' = "load_model"
    /\ returned_lines' = << >>
    /\ UNCHANGED <<dialogue_lines, batch_size, enable_enhancements, model_key, i,
                   translations, calls, preprocessing_stats, progress_callback, run, progress_log>>
    /\ UNCHANGED <<trackVars, extVars, enhVars, runVars>>

\* translate_dialogue_lines: the model loads and translate_texts is entered
LoadModel ==
    /\ pc = "start"
    /\ pc' = "translating"
    /\ i' = 0
    /\ translations' = << >>
    /\ UNCHANGED <<dialogue_lines, batch_size, enable_enhancements, model_key,
                   calls, preprocessing_stats, progress_callback, run, progress_log, returned_lines,
                   error>>
    /\ UNCHANGED <<trackVars, extVars, enhVars, runVars>>

\* the preprocessing of the current batch, which runs before the backend call
StatsAfterBatch ==
    IF enable_enhancements THEN RecordStats(preprocessing_stats, batch_texts, 1)
    ELSE preprocessing_stats

\* translate_texts: one iteration of the loop, the backend answering
TranslateBatch ==
    /\ pc = "translating"
    /\ i < Len(texts)
    /\ \E decoded \in [1..Len(batch_texts) -> Decodings] :
          /\ translations' =
                 translations \o _translate_batch(batch_texts, decoded, enable_enhancements)
          /\ calls' = Append(calls,
                 [sent |-> BatchSent(batch_texts, enable_enhancements, model_key),
                  decoded |-> decoded])
    /\ preprocessing_stats' = StatsAfterBatch
    /\ progress_log' = IF progress_callback
                        THEN Append(progress_log, <<batch_num, total_batches>>)
                        ELSE progress_log
    /\ i' = i + batch_size
    /\ UNCHANGED <<dialogue_lines, batch_size, enable_enhancements, model_key, pc,
                   progress_callback, run, returned_lines, error>>
    /\ UNCHANGED <<trackVars, extVars, enhVars, runVars>>

\* translate_texts: the backend call of the current batch raises; nothing
\* between _generate_translations and the caller of translate_dialogue_lines
\* catches it
BackendRaises ==
    /\ pc = "translating"
    /\ i < Len(texts)
    /\ preprocessing_stats' = StatsAfterBatch
    /\ pc' = "raised"
    /\ error' = "backend"
    /\ UNCHANGED <<dialogue_lines, batch_size, enable_enhancements, model_key, i,
                   translations, calls, progress_callback, run, progress_log, returned_lines>>
    /\ UNCHANGED <<trackVars, extVars, enhVars, runVars>>

\* the user interrupts the run: KeyboardInterrupt is raised wherever the run
\* is, between two batches or inside the backend call of a batch, and
\* nothing in translate_texts or translate_dialogue_lines catches it
KeyboardInterrupt ==
    /\ pc = "translating"
    /\ \E mid_batch \in BOOLEAN :
          /\ mid_batch => i < Len(texts)
          /\ preprocessing_stats' = IF mid_batch THEN StatsAfterBatch ELSE preprocessing_stats
    /\ pc' = "raised"
    /\ error' = "KeyboardInterrupt"
    /\ UNCHANGED <<dialogue_lines, batch_size, enable_enhancements, model_key, i,
                   translations, calls, progress_callback, run, progress_log, returned_lines>>
    /\ UNCHANGED <<trackVars, extVars, enhVars, runVars>>

\* translate_texts returns and translate_dialogue_lines zips the lines with
\* the translated texts (strict: unequal lengths raise ValueError)
Return ==
    /\ pc = "translating"
    /\ i >= Len(texts)
    /\ IF Len(translations) = Len(dialogue_lines)
       THEN /\ returned_lines' = [k \in 1..Len(dialogue_lines) |->
                             [start_ms |-> dialogue_lines[k].start_ms,
                              end_ms |-> dialogue_lines[k].end_ms,
                              text |-> translations[k]]]
            /\ pc' = "returned"
            /\ error' = "none"
       ELSE /\ returned_lines' = << >>
            /\ pc' = "raised"
            /\ error' = "ValueError"
    /\ UNCHANGED <<dialogue_lines, batch_size, enable_enhancements, model_key, i,
                   translations, calls, preprocessing_stats, progress_callback, run, progress_log>>
    /\ UNCHANGED <<trackVars, extVars, enhVars, runVars>>

Init == InitTranslation

Next ==
    \/ LoadModelFails
    \/ LoadModel
    \/ TranslateBatch
    \/ BackendRaises
    \/ KeyboardInterrupt
    \/ Return

Spec == Init /\ [][Next]_vars

\* ------------------------------------------------------------------------
\* translation/translator.py: translate_texts called directly on one
\* SubtitleTranslator, with or without a progress callback, once or again
\* ------------------------------------------------------------------------

MaxRuns == 2

\* __init__ has made the translator (preprocessing_stats = PreprocessingStats())
\* and translate_texts(texts, progress_callback) is entered
InitTexts ==
    /\ dialogue_lines \in LinesOver(BatchingTexts, MaxLines)
    /\ batch_size \in 1..MaxBatch
    /\ enable_enhancements \in BOOLEAN
    /\ model_key \in ModelKeys
    /\ pc = "translating"
    /\ i = 0
    /\ translations = << >>
    /\ calls = << >>
    /\ preprocessing_stats = NoStats
    /\ progress_callback \in BOOLEAN
    /\ run = 1
    /\ progress_log = << >>
    /\ returned_lines = << >>
    /\ error = "none"
    /\ track_info = << >>
    /\ enable_ocr = FALSE
    /\ ocr_available = FALSE
    /\ sel_pc = "idle"
    /\ eng_track = 0
    /\ subs = << >>
    /\ ev_pos = 0
    /\ unique_subs = << >>
    /\ last_text = << >>
    /\ current_group_start = 0
    /\ current_group_end = 0
    /\ ext_pc = "idle"
    /\ extracted = << >>
    /\ clean_subs = << >>
    /\ legacy_lines = << >>
    /\ enh_text = ""
    /\ enh_pc = "idle"
    /\ enh_pre = << >>
    /\ enh_post = << >>
    /\ RunIdle

\* translate_texts: the loop is over (or texts is empty) and the translations
\* are returned
ReturnTexts ==
    /\ pc = "translating"
    /\ i >= Len(texts)
    /\ pc' = "returned"
    /\ UNCHANGED <<dialogue_lines, batch_size, enable_enhancements, model_key, i,
                   translations, calls, preprocessing_stats, progress_callback, run,
                   progress_log, returned_lines, error>>
    /\ UNCHANGED <<trackVars, extVars, enhVars, runVars>>

\* translate_texts is called again on the same translator: translations
\* starts empty, self.preprocessing_stats is the object __init__ made
TranslateAgain ==
    /\ pc = "returned"
    /\ run < MaxRuns
    /\ run' = run + 1
    /\ pc' = "translating"
    /\ i' = 0
    /\ translations' = << >>
    /\ calls' = << >>
    /\ progress_log' = << >>
    /\ UNCHANGED <<dialogue_lines, batch_size, enable_enhancements, model_key,
                   preprocessing_stats, progress_callback, returned_lines, error>>
    /\ UNCHANGED <<trackVars, extVars, enhVars, runVars>>

NextTexts ==
    \/ TranslateBatch
    \/ BackendRaises
    \/ KeyboardInterrupt
    \/ ReturnTexts
    \/ TranslateAgain

SpecTexts == InitTexts /\ [][NextTexts]_vars

\* ------------------------------------------------------------------------
\* subtitles/extractor.py: SubtitleExtractor.find_english_track
\* ------------------------------------------------------------------------

MaxTracks == 3

TrackNames == {"", "English Full Dialogue", "English Signs/Songs"}

TrackCodecs == {"ass", "hdmv_pgs_subtitle", "xsub"}

TrackLanguages == {"eng", "jpn"}

NON_DIALOGUE_STYLES == <<"sign", "song", "title", "op", "ed">>

TEXT_CODECS == <<"ass", "ssa", "subrip", "srt", "webvtt", "mov_text">>

IMAGE_CODECS == <<"hdmv_pgs_subtitle", "dvd_subtitle", "dvb_subtitle">>

\* any(keyword in track_name.lower() for keyword in NON_DIALOGUE_STYLES)
HasMarker(track_name) ==
    \E k \in 1..Len(NON_DIALOGUE_STYLES) : Contains(lower(track_name), NON_DIALOGUE_STYLES[k])

\* any(codec == c or codec.startswith(c) for c in codecs), codec lower-cased
CodecIn(codec, codecs) ==
    \E k \in 1..Len(codecs) : lower(codec) = codecs[k] \/ startswith(lower(codec), codecs[k])

\* the class _separate_by_codec puts a codec in: a codec that is neither a
\* text codec nor an image codec goes with the text tracks
CodecClass(codec) ==
    IF CodecIn(codec, TEXT_CODECS) THEN "text"
    ELSE IF CodecIn(codec, IMAGE_CODECS) THEN "image"
    ELSE "text"

\* the two tests on every name and codec of the runs, computed once
NameHasMarker == [n \in TrackNames |-> HasMarker(n)]

ClassOfCodec == [c \in TrackCodecs |-> CodecClass(c)]

\* a track list is handled as the list of the positions of its tracks in
\* track_info, so that a returned track is the very track of the input
Positions(tracks, idxs, Keep(_)) ==
    LET Test(n) == Keep(tracks[n]) IN SelectSeq(idxs, Test)

_get_english_tracks(tracks) ==
    LET IsEnglish(t) == t.type = "subtitles" /\ t.language \in {"eng", "en"}
    IN  Positions(tracks, [n \in 1..Len(tracks) |-> n], IsEnglish)

\* (dialogue_tracks, signs_tracks)
_categorize_tracks(tracks, idxs) ==
    LET IsSigns(t) == NameHasMarker[t.track_name]
        IsDialogue(t) == ~NameHasMarker[t.track_name]
    IN  [dialogue_tracks |-> Positions(tracks, idxs, IsDialogue),
         signs_tracks |-> Positions(tracks, idxs, IsSigns)]

\* (text_tracks, image_tracks)
_separate_by_codec(tracks, idxs) ==
    LET IsText(t) == ClassOfCodec[t.codec] = "text"
        IsImage(t) == ClassOfCodec[t.codec] = "image"
    IN  [text_tracks |-> Positions(tracks, idxs, IsText),
         image_tracks |-> Positions(tracks, idxs, IsImage)]

\* a selection: the position returned (0 for None) and whether the track was
\* marked requires_ocr on the way
Selection(n, marked) == [track |-> n, requires_ocr |-> marked]

_handle_image_tracks(image_tracks, ocr_on, ocr_ok) ==
    IF ~ocr_on THEN Selection(0, FALSE)
    ELSE IF ocr_ok THEN Selection(image_tracks[1], TRUE)
    ELSE Selection(0, FALSE)

\* _select_from_dialogue_tracks without the text-over-image preference
_select_from_dialogue_tracks_any_codec(tracks, dialogue_tracks, ocr_on, ocr_ok) ==
    IF dialogue_tracks /= << >> THEN Selection(dialogue_tracks[1], FALSE)
    ELSE Selection(0, FALSE)

_select_from_dialogue_tracks(tracks, dialogue_tracks, ocr_on, ocr_ok) ==
    LET by_codec == _separate_by_codec(tracks, dialogue_tracks)
    IN  IF by_codec.text_tracks /= << >> THEN Selection(by_codec.text_tracks[1], FALSE)
        ELSE IF by_codec.image_tracks /= << >>
        THEN _handle_image_tracks(by_codec.image_tracks, ocr_on, ocr_ok)
        ELSE IF dialogue_tracks /= << >> THEN Selection(dialogue_tracks[1], FALSE)
        ELSE Selection(0, FALSE)

_select_from_signs_tracks(tracks, signs_tracks, english_tracks) ==
    LET by_codec == _separate_by_codec(tracks, signs_tracks)
        NotForced(t) == ~t.forced_track
        non_forced == Positions(tracks, english_tracks, NotForced)
    IN  IF by_codec.text_tracks /= << >> THEN Selection(by_codec.text_tracks[1], FALSE)
        ELSE IF by_codec.image_tracks /= << >> THEN Selection(0, FALSE)
        ELSE IF non_forced /= << >> THEN Selection(non_forced[1], FALSE)
        ELSE Selection(english_tracks[1], FALSE)

_select_best_track(tracks, english_tracks, ocr_on, ocr_ok) ==
    LET cat == _categorize_tracks(tracks, english_tracks)
        chosen == _select_from_dialogue_tracks(tracks, cat.dialogue_tracks, ocr_on, ocr_ok)
    IN  IF cat.dialogue_tracks /= << >> /\ chosen.track /= 0 THEN chosen
        ELSE _select_from_signs_tracks(tracks, cat.signs_tracks, english_tracks)

\* find_english_track without the shortcut for a single candidate
find_english_track_no_shortcut(tracks, ocr_on, ocr_ok) ==
    LET english_tracks == _get_english_tracks(tracks)
    IN  IF english_tracks = << >> THEN Selection(0, FALSE)
        ELSE _select_best_track(tracks, english_tracks, ocr_on, ocr_ok)

find_english_track(tracks, ocr_on, ocr_ok) ==
    LET english_tracks == _get_english_tracks(tracks)
    IN  IF english_tracks = << >> THEN Selection(0, FALSE)
        ELSE IF Len(english_tracks) = 1 THEN Selection(english_tracks[1], FALSE)
        ELSE _select_best_track(tracks, english_tracks, ocr_on, ocr_ok)

\* the tracks _convert_ffprobe_info builds: every one a subtitle track
TrackChoices ==
    [type : {"subtitles"}, codec : TrackCodecs, language : {"eng"}, track_name : TrackNames,
     forced_track : BOOLEAN, requires_ocr : {FALSE}]
    \cup [type : {"subtitles"}, codec : {"ass"}, language : {"jpn"}, track_name : {""},
          forced_track : {FALSE}, requires_ocr : {FALSE}]

InitTrack ==
    /\ track_info \in UNION {[1..n -> TrackChoices] : n \in 0..MaxTracks}
    /\ enable_ocr \in BOOLEAN
    /\ ocr_available \in BOOLEAN
    /\ sel_pc = "start"
    /\ eng_track = 0
    /\ dialogue_lines = << >>
    /\ batch_size = 1
    /\ enable_enhancements = TRUE
    /\ model_key = "allegro"
    /\ pc = "idle"
    /\ i = 0
    /\ translations = << >>
    /\ calls = << >>
    /\ preprocessing_stats = NoStats
    /\ progress_callback = TRUE
    /\ run = 1
    /\ progress_log = << >>
    /\ returned_lines = << >>
    /\ error = "none"
    /\ subs = << >>
    /\ ev_pos = 0
    /\ unique_subs = << >>
    /\ last_text = << >>
    /\ current_group_start = 0
    /\ current_group_end = 0
    /\ ext_pc = "idle"
    /\ extracted = << >>
    /\ clean_subs = << >>
    /\ legacy_lines = << >>
    /\ enh_text = ""
    /\ enh_pc = "idle"
    /\ enh_pre = << >>
    /\ enh_post = << >>
    /\ RunIdle

\* one call of find_english_track on track_info
FindEnglishTrack ==
    /\ sel_pc = "start"
    /\ LET chosen == find_english_track(track_info, enable_ocr, ocr_available)
       IN  /\ eng_track' = chosen.track
           /\ track_info' = IF chosen.requires_ocr
                            THEN [track_info EXCEPT ![chosen.track].requires_ocr = TRUE]
                            ELSE track_info
    /\ sel_pc' = "done"
    /\ UNCHANGED <<enable_ocr, ocr_available>>
    /\ UNCHANGED <<transVars, extVars, enhVars, runVars>>

NextTrack == FindEnglishTrack

SpecTrack == InitTrack /\ [][NextTrack]_vars

\* ------------------------------------------------------------------------
\* subtitles/parser.py: SubtitleParser.extract_dialogue_lines, and the step of
\* pipeline.py that calls it (subtitles/processor.py holds the same two loops)
\* ------------------------------------------------------------------------

MaxEvents == 3

\* (style, raw text) of the events of the runs
EventKinds ==
    {<<"Default", "Hello">>, <<"Default", "{\\i1}Hello ">>, <<"Default", "So\\Nlong ">>,
     <<"Signs", "Hello">>, <<"Default", "{\\an8}x">>}

\* (start, end) of the events of the runs, in milliseconds
EventTimes == {<<0, 1000>>, <<1000, 2000>>, <<2000, 3500>>, <<1000, 1000>>}

\* the first position from p on where s holds the character c, 0 for none
RECURSIVE FindChar(_, _, _)
FindChar(s, c, p) ==
    IF p > Len(s) THEN 0 ELSE IF CharAt(s, p) = c THEN p ELSE FindChar(s, c, p + 1)

RECURSIVE StripOverrides(_, _)
\* the scan at an opening brace at p whose closing brace is at q (0 for none)
StripOverrideAt(s, p, q) ==
    IF q = 0 THEN "{" \o StripOverrides(s, p + 1) ELSE StripOverrides(s, q + 1)

\* the event text without its override blocks {...}, scanning from p
StripOverrides(s, p) ==
    IF p > Len(s) THEN ""
    ELSE IF CharAt(s, p) = "{" THEN StripOverrideAt(s, p, FindChar(s, "}", p + 1))
    ELSE CharAt(s, p) \o StripOverrides(s, p + 1)

RECURSIVE Replace(_, _, _, _)
\* str.replace(old, new), scanning from p
Replace(s, old, new, p) ==
    IF p > Len(s) THEN ""
    ELSE IF Slice(s, p, p + Len(old) - 1) = old THEN new \o Replace(s, old, new, p + Len(old))
    ELSE CharAt(s, p) \o Replace(s, old, new, p + 1)

\* the plain text of an event: override blocks removed, \h a space, \n and \N
\* a line break
plaintext(text) ==
    Replace(Replace(Replace(StripOverrides(text, 1), "\\h", " ", 1), "\\n", "\n", 1),
            "\\N", "\n", 1)

\* event.plaintext.strip() of every raw text of the runs, computed once
CleanText == [k \in EventKinds |-> strip(plaintext(k[2]))]

\* the same for the texts the consolidated events carry
CleanAgain == [k \in EventKinds |-> strip(plaintext(CleanText[k]))]

\* any(keyword in style.lower() for keyword in NON_DIALOGUE_STYLES)
StyleHasMarker == [k \in EventKinds |-> HasMarker(k[1])]

\* an event of the document; kind keeps the (style, raw text) it was built from
Event(kind, time) ==
    [start |-> time[1], end |-> time[2], style |-> kind[1], text |-> kind[2], kind |-> kind]

\* max(current_group_end, event.end) taking the later end only
ExtendedGroupEnd_last(group_end, event_end) == event_end

\* max(current_group_end, event.end)
ExtendedGroupEnd(group_end, event_end) == Max(group_end, event_end)

\* unique_subs[-1] = SSAEvent(start, end, style of unique_subs[-1], text)
_consolidate_last_event(unique, start, end, text) ==
    [unique EXCEPT ![Len(unique)] = [@ EXCEPT !.start = start, !.end = end, !.text = text]]

\* "Save previous group" of the loop, and "Handle the last group" after it
SavedGroup(unique, last, start, end) ==
    IF last /= << >> /\ unique /= << >>
    THEN _consolidate_last_event(unique, start, end, last[1])
    ELSE unique

\* the test of _filter_dialogue on one event: non-empty text, a style without
\* marker, non-empty plain text
IsDialogue(event) ==
    /\ event.text /= "" /\ strip(event.text) /= ""
    /\ ~StyleHasMarker[event.kind]
    /\ CleanAgain[event.kind] /= ""

\* the filter of _filter_dialogue dropping nothing by style
_filter_dialogue_any_style(events) ==
    [k \in 1..Len(events) |->
        [start_ms |-> events[k].start, end_ms |-> events[k].end,
         text |-> CleanAgain[events[k].kind]]]

RECURSIVE _filter_dialogue(_)
\* the DialogueLines of the events that pass, in order
_filter_dialogue(events) ==
    IF events = << >> THEN << >>
    ELSE (IF IsDialogue(events[1])
          THEN <<[start_ms |-> events[1].start, end_ms |-> events[1].end,
                  text |-> CleanAgain[events[1].kind]]>>
          ELSE << >>) \o _filter_dialogue(Tail(events))

\* _parse_dialogue of the pipeline going on with whatever was extracted
PipelineGoesOn_always(lines) == TRUE

\* process_video_file goes on to _translate only with a non-empty list
PipelineGoesOn(lines) == lines /= << >>

InitExtract ==
    /\ subs \in UNION {[1..n -> {Event(k, t) : k \in EventKinds, t \in EventTimes}] :
                          n \in 0..MaxEvents}
    /\ ev_pos = 0
    /\ unique_subs = << >>
    /\ last_text = << >>
    /\ current_group_start = 0
    /\ current_group_end = 0
    /\ ext_pc = "dedup"
    /\ extracted = << >>
    /\ clean_subs = << >>
    /\ legacy_lines = << >>
    /\ enh_text = ""
    /\ enh_pc = "idle"
    /\ enh_pre = << >>
    /\ enh_post = << >>
    /\ dialogue_lines = << >>
    /\ batch_size = 1
    /\ enable_enhancements = TRUE
    /\ model_key = "allegro"
    /\ pc = "idle"
    /\ i = 0
    /\ translations = << >>
    /\ calls = << >>
    /\ preprocessing_stats = NoStats
    /\ progress_callback = TRUE
    /\ run = 1
    /\ progress_log = << >>
    /\ returned_lines = << >>
    /\ error = "none"
    /\ track_info = << >>
    /\ enable_ocr = FALSE
    /\ ocr_available = FALSE
    /\ sel_pc = "idle"
    /\ eng_track = 0
    /\ RunIdle

\* _deduplicate_events: the event is dropped, its plain text is too short
DedupDropShort ==
    /\ ext_pc = "dedup"
    /\ ev_pos < Len(subs)
    /\ Len(CleanText[subs[ev_pos + 1].kind]) < 2
    /\ ev_pos' = ev_pos + 1
    /\ UNCHANGED <<subs, unique_subs, last_text, current_group_start, current_group_end,
                   ext_pc, extracted>>
    /\ UNCHANGED <<clean_subs, legacy_lines>>
    /\ UNCHANGED <<transVars, trackVars, enhVars, runVars>>

\* _deduplicate_events: the event repeats the text of the current group
DedupMerge ==
    /\ ext_pc = "dedup"
    /\ ev_pos < Len(subs)
    /\ Len(CleanText[subs[ev_pos + 1].kind]) >= 2
    /\ last_text = <<CleanText[subs[ev_pos + 1].kind]>>
    /\ current_group_end' = ExtendedGroupEnd(current_group_end, subs[ev_pos + 1].end)
    /\ ev_pos' = ev_pos + 1
    /\ UNCHANGED <<subs, unique_subs, last_text, current_group_start, ext_pc, extracted>>
    /\ UNCHANGED <<clean_subs, legacy_lines>>
    /\ UNCHANGED <<transVars, trackVars, enhVars, runVars>>

\* _deduplicate_events: the event starts a new group
DedupNewGroup ==
    /\ ext_pc = "dedup"
    /\ ev_pos < Len(subs)
    /\ Len(CleanText[subs[ev_pos + 1].kind]) >= 2
    /\ last_text /= <<CleanText[subs[ev_pos + 1].kind]>>
    /\ unique_subs' =
           Append(SavedGroup(unique_subs, last_text, current_group_start, current_group_end),
                  subs[ev_pos + 1])
    /\ last_text' = <<CleanText[subs[ev_pos + 1].kind]>>
    /\ current_group_start' = subs[ev_pos + 1].start
    /\ current_group_end' = subs[ev_pos + 1].end
    /\ ev_pos' = ev_pos + 1
    /\ UNCHANGED <<subs, ext_pc, extracted>>
    /\ UNCHANGED <<clean_subs, legacy_lines>>
    /\ UNCHANGED <<transVars, trackVars, enhVars, runVars>>

\* _deduplicate_events: the loop is over, the last group is saved
DedupFinish ==
    /\ ext_pc = "dedup"
    /\ ev_pos = Len(subs)
    /\ unique_subs' = SavedGroup(unique_subs, last_text, current_group_start, current_group_end)
    /\ ext_pc' = "filter"
    /\ UNCHANGED <<subs, ev_pos, last_text, current_group_start, current_group_end, extracted>>
    /\ UNCHANGED <<clean_subs, legacy_lines>>
    /\ UNCHANGED <<transVars, trackVars, enhVars, runVars>>

\* extract_dialogue_lines returns _filter_dialogue(unique_subs)
FilterDialogue ==
    /\ ext_pc = "filter"
    /\ extracted' = _filter_dialogue(unique_subs)
    /\ ext_pc' = "parsed"
    /\ UNCHANGED <<subs, ev_pos, unique_subs, last_text, current_group_start,
                   current_group_end>>
    /\ UNCHANGED <<clean_subs, legacy_lines>>
    /\ UNCHANGED <<transVars, trackVars, enhVars, runVars>>

\* process_video_file: _parse_dialogue returned None, the pipeline returns False
PipelineStops ==
    /\ ext_pc = "parsed"
    /\ ~PipelineGoesOn(extracted)
    /\ ext_pc' = "stopped"
    /\ UNCHANGED <<subs, ev_pos, unique_subs, last_text, current_group_start,
                   current_group_end, extracted>>
    /\ UNCHANGED <<clean_subs, legacy_lines>>
    /\ UNCHANGED <<transVars, trackVars, enhVars, runVars>>

\* process_video_file: _translate calls translate_dialogue_lines on the lines
PipelineTranslates ==
    /\ ext_pc = "parsed"
    /\ PipelineGoesOn(extracted)
    /\ ext_pc' = "translate"
    /\ dialogue_lines' = extracted
    /\ pc' = "start"
    /\ UNCHANGED <<batch_size, enable_enhancements, model_key, i, translations, calls,
                   preprocessing_stats, progress_callback, run, progress_log,
                   returned_lines, error>>
    /\ UNCHANGED <<subs, ev_pos, unique_subs, last_text, current_group_start,
                   current_group_end, extracted, clean_subs, legacy_lines>>
    /\ UNCHANGED <<trackVars, enhVars, runVars>>

\* ------------------------------------------------------------------------
\* subtitles/writer.py: SubtitleWriter.create_english_ass; and the script
\* clean_pipeline.py, which has its own extractor and writer
\* ------------------------------------------------------------------------

\* a new document that starts with the events of the original
_create_subtitle_file_copy(original_subs) == original_subs

\* _create_subtitle_file: a new SSAFile that takes info and styles of the
\* original; these are its events
_create_subtitle_file(original_subs) == << >>

RECURSIVE _add_dialogue_events(_, _)
\* one SSAEvent per line appended to the events of the document
_add_dialogue_events(events, lines) ==
    IF lines = << >> THEN events
    ELSE _add_dialogue_events(
             Append(events, [start |-> lines[1].start_ms, end |-> lines[1].end_ms,
                             style |-> "Default",
                             text |-> Replace(lines[1].text, "\n", "\\N", 1)]),
             Tail(lines))

\* the events of the document create_english_ass saves
create_english_ass(original_subs, lines) ==
    _add_dialogue_events(_create_subtitle_file(original_subs), lines)

\* clean_pipeline.py, extract_dialogue_lines: the tests an event passes
LegacyIsDialogue(event) ==
    /\ event.text /= "" /\ strip(event.text) /= ""
    /\ ~StyleHasMarker[event.kind]
    /\ CleanText[event.kind] /= ""
    /\ Len(CleanText[event.kind]) >= 2

RECURSIVE clean_pipeline_extract_dialogue_lines(_)
\* clean_pipeline.py, extract_dialogue_lines: no deduplication
clean_pipeline_extract_dialogue_lines(events) ==
    IF events = << >> THEN << >>
    ELSE (IF LegacyIsDialogue(events[1])
          THEN <<[start_ms |-> events[1].start, end_ms |-> events[1].end,
                  text |-> CleanText[events[1].kind]]>>
          ELSE << >>) \o clean_pipeline_extract_dialogue_lines(Tail(events))

\* clean_pipeline.py, create_clean_english_ass: the tests an event of the
\* original passes to take the next line
LegacyTakesLine(event) ==
    /\ ~StyleHasMarker[event.kind]
    /\ event.text /= "" /\ strip(event.text) /= ""
    /\ CleanText[event.kind] /= "" /\ Len(CleanText[event.kind]) >= 2

RECURSIVE LegacyCleanEvents(_, _, _)
\* the loop of create_clean_english_ass over the events of the original
LegacyCleanEvents(original, lines, dialogue_index) ==
    IF original = << >> THEN << >>
    ELSE IF LegacyTakesLine(original[1]) /\ dialogue_index < Len(lines)
    THEN <<[start |-> original[1].start, end |-> original[1].end,
            style |-> original[1].style, text |-> lines[dialogue_index + 1].text]>>
         \o LegacyCleanEvents(Tail(original), lines, dialogue_index + 1)
    ELSE LegacyCleanEvents(Tail(original), lines, dialogue_index)

\* the events of the document create_clean_english_ass saves
create_clean_english_ass(original_subs, lines) == LegacyCleanEvents(original_subs, lines, 0)

\* process_video_file, step 4, once _translate has returned the translated
\* list: create_english_ass(extracted_ass, dialogue_lines, clean_english_ass)
CreateSubtitleFiles ==
    /\ ext_pc = "translate"
    /\ clean_subs' = create_english_ass(subs, extracted)
    /\ ext_pc' = "written"
    /\ UNCHANGED <<subs, ev_pos, unique_subs, last_text, current_group_start,
                   current_group_end, extracted, legacy_lines>>
    /\ UNCHANGED <<transVars, trackVars, enhVars, runVars>>

\* clean_pipeline.py, main, step 1 on the same document
LegacyExtract ==
    /\ ext_pc = "dedup"
    /\ ev_pos = 0
    /\ legacy_lines' = clean_pipeline_extract_dialogue_lines(subs)
    /\ ext_pc' = "legacy_parsed"
    /\ UNCHANGED <<subs, ev_pos, unique_subs, last_text, current_group_start,
                   current_group_end, extracted, clean_subs>>
    /\ UNCHANGED <<transVars, trackVars, enhVars, runVars>>

\* clean_pipeline.py, main, step 3: reached with a non-empty list only
LegacyWrite ==
    /\ ext_pc = "legacy_parsed"
    /\ legacy_lines /= << >>
    /\ clean_subs' = create_clean_english_ass(subs, legacy_lines)
    /\ ext_pc' = "legacy_written"
    /\ UNCHANGED <<subs, ev_pos, unique_subs, last_text, current_group_start,
                   current_group_end, extracted, legacy_lines>>
    /\ UNCHANGED <<transVars, trackVars, enhVars, runVars>>

\* ------------------------------------------------------------------------
\* subtitles/validator.py: SubtitleValidator, and the validation of
\* subtitles/processor.py
\* ------------------------------------------------------------------------

TIMING_TOLERANCE_MS == 50

\* event.text.replace('\\N', ' ').strip()
CleanedKey(text) == strip(Replace(text, "\\N", " ", 1))

\* _build_cleaned_dict: the (text, start, end) of the events of the cleaned
\* file whose text is not empty; cleaned_dict[text] are the (start, end) of
\* the entries with that text
_build_cleaned_dict(cleaned_subs) ==
    {<<CleanedKey(cleaned_subs[n].text), cleaned_subs[n].start, cleaned_subs[n].end>> :
        n \in {m \in 1..Len(cleaned_subs) : CleanedKey(cleaned_subs[m].text) /= ""}}

_check_timing_coverage(event, cleaned_timings) ==
    \E t \in cleaned_timings :
        /\ t[2] <= event.start + TIMING_TOLERANCE_MS
        /\ t[3] >= event.end - TIMING_TOLERANCE_MS

\* _validate_coverage: stats['mismatches'], the number of events of the
\* original that are looked up, found and not covered
_validate_coverage(original_subs, cleaned_dict) ==
    Cardinality({n \in 1..Len(original_subs) :
        /\ ~StyleHasMarker[original_subs[n].kind]
        /\ Len(CleanText[original_subs[n].kind]) >= 2
        /\ \E t \in cleaned_dict : t[1] = CleanText[original_subs[n].kind]
        /\ ~_check_timing_coverage(original_subs[n],
               {t \in cleaned_dict : t[1] = CleanText[original_subs[n].kind]})})

\* validate_cleaned_subtitles: TRUE when it returns, FALSE when it raises
\* SubtitleValidationError('Found n timing gaps')
validate_cleaned_subtitles(original_subs, cleaned_subs) ==
    _validate_coverage(original_subs, _build_cleaned_dict(cleaned_subs)) = 0

TOLERANCE_MS == 20000000

\* processor.py: [e for e in subs if e.text.strip()], as positions
NonEmptyEvents(events) == {n \in 1..Len(events) : strip(events[n].text) /= ""}

\* processor.py: the events of the original whose style has no marker
OriginalDialogue(original_subs) ==
    {n \in NonEmptyEvents(original_subs) : ~StyleHasMarker[original_subs[n].kind]}

Abs(n) == IF n < 0 THEN 0 - n ELSE n

\* processor.py, SubtitleProcessor.validate_cleaned_subtitles: TRUE when it
\* returns, FALSE when it raises SubtitleProcessingError
processor_validate_cleaned_subtitles(original_subs, cleaned_subs) ==
    IF OriginalDialogue(original_subs) = {} THEN TRUE
    ELSE IF NonEmptyEvents(cleaned_subs) = {} THEN FALSE
    ELSE /\ Abs(MinOf({cleaned_subs[n].start : n \in NonEmptyEvents(cleaned_subs)})
                - MinOf({original_subs[n].start : n \in OriginalDialogue(original_subs)}))
               <= TOLERANCE_MS
         /\ Abs(MaxOf({cleaned_subs[n].end : n \in NonEmptyEvents(cleaned_subs)})
                - MaxOf({original_subs[n].end : n \in OriginalDialogue(original_subs)}))
               <= TOLERANCE_MS

\* pipeline.py, _create_subtitle_files: the validator checks the cleaned file
\* against the extracted one
ValidateCleaned ==
    /\ ext_pc = "written"
    /\ ext_pc' = IF validate_cleaned_subtitles(subs, clean_subs)
                 THEN "validated" ELSE "timing_gap"
    /\ UNCHANGED <<subs, ev_pos, unique_subs, last_text, current_group_start,
                   current_group_end, extracted, clean_subs, legacy_lines>>
    /\ UNCHANGED <<transVars, trackVars, enhVars, runVars>>

\* the same two files given to SubtitleProcessor.validate_cleaned_subtitles
ProcessorValidate ==
    /\ ext_pc = "written"
    /\ ext_pc' = IF processor_validate_cleaned_subtitles(subs, clean_subs)
                 THEN "proc_validated" ELSE "proc_mismatch"
    /\ UNCHANGED <<subs, ev_pos, unique_subs, last_text, current_group_start,
                   current_group_end, extracted, clean_subs, legacy_lines>>
    /\ UNCHANGED <<transVars, trackVars, enhVars, runVars>>

NextExtract ==
    \/ DedupDropShort
    \/ DedupMerge
    \/ DedupNewGroup
    \/ DedupFinish
    \/ FilterDialogue
    \/ PipelineStops
    \/ PipelineTranslates
    \/ CreateSubtitleFiles
    \/ ValidateCleaned
    \/ ProcessorValidate
    \/ LegacyExtract
    \/ LegacyWrite

SpecExtract == InitExtract /\ [][NextExtract]_vars

\* ------------------------------------------------------------------------
\* the validators applied to any original and any cleaned file
\* ------------------------------------------------------------------------

MaxOriginalEvents == 2

MaxCleanedEvents == 2

OriginalKinds == {<<"Default", "Hello">>, <<"Default", "So\\Nlong ">>, <<"Signs", "Hello">>,
                  <<"Default", "{\\an8}x">>}

OriginalTimes == {<<1000, 3000>>}

CleanedTexts == {"Hello", "So\\Nlong"}

CleanedTimes == {<<900, 3100>>, <<5000, 6000>>, <<1050, 2950>>, <<1051, 3000>>}

\* the events of a cleaned file
CleanedEvents ==
    {[start |-> t[1], end |-> t[2], style |-> "Default", text |-> x] :
        x \in CleanedTexts, t \in CleanedTimes}

InitValidate ==
    /\ subs \in UNION {[1..n -> {Event(k, t) : k \in OriginalKinds, t \in OriginalTimes}] :
                          n \in 0..MaxOriginalEvents}
    /\ clean_subs \in UNION {[1..n -> CleanedEvents] : n \in 0..MaxCleanedEvents}
    /\ ev_pos = 0
    /\ unique_subs = << >>
    /\ last_text = << >>
    /\ current_group_start = 0
    /\ current_group_end = 0
    /\ ext_pc = "written"
    /\ extracted = << >>
    /\ legacy_lines = << >>
    /\ enh_text = ""
    /\ enh_pc = "idle"
    /\ enh_pre = << >>
    /\ enh_post = << >>
    /\ dialogue_lines = << >>
    /\ batch_size = 1
    /\ enable_enhancements = TRUE
    /\ model_key = "allegro"
    /\ pc = "idle"
    /\ i = 0
    /\ translations = << >>
    /\ calls = << >>
    /\ preprocessing_stats = NoStats
    /\ progress_callback = TRUE
    /\ run = 1
    /\ progress_log = << >>
    /\ returned_lines = << >>
    /\ error = "none"
    /\ track_info = << >>
    /\ enable_ocr = FALSE
    /\ ocr_available = FALSE
    /\ sel_pc = "idle"
    /\ eng_track = 0
    /\ RunIdle

NextValidate ==
    \/ ValidateCleaned
    \/ ProcessorValidate

SpecValidate == InitValidate /\ [][NextValidate]_vars

\* ------------------------------------------------------------------------
\* main.py: main and process_mkv_file (the same steps are the methods of
\* pipeline.py, TranslationPipeline, and the script translate.py)
\* ------------------------------------------------------------------------

MaxFiles == 2

\* the two entry points: main of main.py and main of translate.py
EntryPoints == {"main", "translate"}

\* the exit statuses of the container tool
ExitStatuses == {0, 1, 2}

\* extract_subtitle taking status 1 for success too
ExtractionSucceeded_upto1(returncode) == returncode \in {0, 1}

\* extract_subtitle: subprocess.run(..., check=True) raises CalledProcessError
\* on any non-zero status, and False is returned
ExtractionSucceeded(returncode) == returncode = 0

\* process_mkv_file going on whatever the validation said
GoesOnAfterValidation_always(valid) == TRUE

\* process_mkv_file: if not validate_cleaned_subtitles(...): return False
GoesOnAfterValidation(valid) == valid

\* a copy that leaves no backup
copy2_nothing(content) == "none"

\* shutil.copy2(mkv_path, backup_path): the backup holds what the file holds
copy2(content) == content

\* main: sys.exit(1) of main.py when failed > 0; main of translate.py ends
\* without it
ExitCode(entry_point, failed_count) ==
    IF failed_count = 0 THEN 0
    ELSE IF entry_point = "main" THEN 1
    ELSE 0

\* the state of the other components while a run over files is modelled
OthersIdle ==
    /\ dialogue_lines = << >>
    /\ batch_size = 1
    /\ enable_enhancements = TRUE
    /\ model_key = "allegro"
    /\ pc = "idle"
    /\ i = 0
    /\ translations = << >>
    /\ calls = << >>
    /\ preprocessing_stats = NoStats
    /\ progress_callback = TRUE
    /\ run = 1
    /\ progress_log = << >>
    /\ returned_lines = << >>
    /\ error = "none"
    /\ track_info = << >>
    /\ enable_ocr = FALSE
    /\ ocr_available = FALSE
    /\ sel_pc = "idle"
    /\ eng_track = 0
    /\ subs = << >>
    /\ ev_pos = 0
    /\ unique_subs = << >>
    /\ last_text = << >>
    /\ current_group_start = 0
    /\ current_group_end = 0
    /\ ext_pc = "idle"
    /\ extracted = << >>
    /\ clean_subs = << >>
    /\ legacy_lines = << >>
    /\ enh_text = ""
    /\ enh_pc = "idle"
    /\ enh_pre = << >>
    /\ enh_post = << >>

\* main has found the files and enters its loop
InitRun ==
    /\ entry \in EntryPoints
    /\ num_files \in 0..MaxFiles
    /\ file_idx = 0
    /\ run_pc = "loop"
    /\ extract_rc = -1
    /\ validation = "none"
    /\ staged = "none"
    /\ video = "original"
    /\ backup = "none"
    /\ written = FALSE
    /\ file_ok = FALSE
    /\ results = << >>
    /\ successful = 0
    /\ failed = 0
    /\ exit_code = -1
    /\ OthersIdle

\* process_mkv_file returns False
ReturnsFalse ==
    /\ run_pc' = "returned"
    /\ file_ok' = FALSE

\* process_mkv_file goes on to the given step
GoesTo(step) ==
    /\ run_pc' = step
    /\ file_ok' = file_ok

\* main: if not mkv_files: sys.exit(1) in main.py, sys.exit(0) in translate.py
NoFiles ==
    /\ run_pc = "loop"
    /\ num_files = 0
    /\ exit_code' = IF entry = "main" THEN 1 ELSE 0
    /\ run_pc' = "exited"
    /\ UNCHANGED <<file_ok, fileVars, entry, num_files, file_idx, results, successful, failed>>
    /\ UNCHANGED <<transVars, trackVars, extVars, enhVars>>

\* main: the loop takes the next file and calls process_mkv_file on it
StartFile ==
    /\ run_pc = "loop"
    /\ file_idx < num_files
    /\ file_idx' = file_idx + 1
    /\ run_pc' = "track"
    /\ extract_rc' = -1
    /\ validation' = "none"
    /\ staged' = "none"
    /\ video' = "original"
    /\ backup' = "none"
    /\ written' = FALSE
    /\ UNCHANGED <<file_ok, entry, num_files, results, successful, failed, exit_code>>
    /\ UNCHANGED <<transVars, trackVars, extVars, enhVars>>

\* step 1: get_track_info and find_english_subtitle_track; a track that
\* requires OCR goes through process_image_based_subtitles
GetTrack ==
    /\ run_pc = "track"
    /\ \E found \in {"no_info", "no_track", "ocr_failed", "ocr_done", "text_track"} :
          IF found = "text_track" THEN GoesTo("extract")
          ELSE IF found = "ocr_done" THEN GoesTo("parse")
          ELSE ReturnsFalse
    /\ UNCHANGED <<fileVars, mainVars>>
    /\ UNCHANGED <<transVars, trackVars, extVars, enhVars>>

\* step 1: extract_subtitle runs the container tool
ExtractSubtitle ==
    /\ run_pc = "extract"
    /\ \E returncode \in ExitStatuses :
          /\ extract_rc' = returncode
          /\ IF ExtractionSucceeded(returncode) THEN GoesTo("parse") ELSE ReturnsFalse
    /\ UNCHANGED <<validation, staged, video, backup, written, mainVars>>
    /\ UNCHANGED <<transVars, trackVars, extVars, enhVars>>

\* step 2: extract_dialogue_lines; no line, return False
ExtractDialogue ==
    /\ run_pc = "parse"
    /\ \E has_lines \in BOOLEAN :
          IF has_lines THEN GoesTo("translate") ELSE ReturnsFalse
    /\ UNCHANGED <<fileVars, mainVars>>
    /\ UNCHANGED <<transVars, trackVars, extVars, enhVars>>

\* step 3: translate_dialogue_lines; an empty result or an exception, return
\* False
TranslateLines ==
    /\ run_pc = "translate"
    /\ \E translated \in {"lines", "empty", "raised"} :
          IF translated = "lines" THEN GoesTo("write") ELSE ReturnsFalse
    /\ UNCHANGED <<fileVars, mainVars>>
    /\ UNCHANGED <<transVars, trackVars, extVars, enhVars>>

\* step 4: create_clean_english_ass, validate_cleaned_subtitles, and after a
\* validation that passed create_polish_ass
CreateAndValidate ==
    /\ run_pc = "write"
    /\ \E valid \in BOOLEAN :
          /\ validation' = IF valid THEN "passed" ELSE "gap"
          /\ IF GoesOnAfterValidation(valid) THEN GoesTo("mux") ELSE ReturnsFalse
    /\ UNCHANGED <<extract_rc, staged, video, backup, written, mainVars>>
    /\ UNCHANGED <<transVars, trackVars, extVars, enhVars>>

\* step 5: create_clean_mkv muxes the two subtitle files into temp_mkv
CreateCleanMkv ==
    /\ run_pc = "mux"
    /\ \E merged \in BOOLEAN :
          IF merged THEN staged' = "built" /\ GoesTo("verify")
          ELSE staged' = staged /\ ReturnsFalse
    /\ UNCHANGED <<extract_rc, validation, video, backup, written, mainVars>>
    /\ UNCHANGED <<transVars, trackVars, extVars, enhVars>>

\* step 6: verify_result(temp_mkv)
VerifyTemp ==
    /\ run_pc = "verify"
    /\ \E verified \in BOOLEAN :
          IF verified THEN staged' = "verified" /\ GoesTo("backup")
          ELSE staged' = staged /\ ReturnsFalse
    /\ UNCHANGED <<extract_rc, validation, video, backup, written, mainVars>>
    /\ UNCHANGED <<transVars, trackVars, extVars, enhVars>>

\* step 7: shutil.copy2(mkv_path, backup_path); an exception, return False
CreateBackup ==
    /\ run_pc = "backup"
    /\ \E copied \in BOOLEAN :
          IF copied THEN backup' = copy2(video) /\ GoesTo("move")
          ELSE backup' = backup /\ ReturnsFalse
    /\ UNCHANGED <<extract_rc, validation, staged, video, written, mainVars>>
    /\ UNCHANGED <<transVars, trackVars, extVars, enhVars>>

\* step 7: shutil.move(temp_mkv, mkv_path); an exception, return False with
\* the original path holding what the interrupted move left
MoveOverOriginal ==
    /\ run_pc = "move"
    /\ \E moved \in BOOLEAN :
          IF moved
          THEN video' = "clean" /\ staged' = "moved" /\ GoesTo("verify_replaced")
          ELSE video' \in {"original", "partial"} /\ staged' = staged /\ ReturnsFalse
    /\ written' = TRUE
    /\ UNCHANGED <<extract_rc, validation, backup, mainVars>>
    /\ UNCHANGED <<transVars, trackVars, extVars, enhVars>>

\* step 7: verify_result(mkv_path)
VerifyReplaced ==
    /\ run_pc = "verify_replaced"
    /\ \E verified \in BOOLEAN :
          IF verified THEN GoesTo("unlink") ELSE GoesTo("restore")
    /\ UNCHANGED <<fileVars, mainVars>>
    /\ UNCHANGED <<transVars, trackVars, extVars, enhVars>>

\* step 7: shutil.move(backup_path, mkv_path) and return False; an exception,
\* return False all the same
RestoreBackup ==
    /\ run_pc = "restore"
    /\ \E moved \in BOOLEAN :
          IF moved THEN video' = backup /\ backup' = "none"
          ELSE UNCHANGED <<video, backup>>
    /\ ReturnsFalse
    /\ UNCHANGED <<extract_rc, validation, staged, written, mainVars>>
    /\ UNCHANGED <<transVars, trackVars, extVars, enhVars>>

\* step 7: backup_path.unlink(), then the temp files are removed and True is
\* returned; an exception, return False
RemoveBackup ==
    /\ run_pc = "unlink"
    /\ \E removed \in BOOLEAN :
          IF removed THEN backup' = "none" /\ run_pc' = "returned" /\ file_ok' = TRUE
          ELSE backup' = backup /\ ReturnsFalse
    /\ UNCHANGED <<extract_rc, validation, staged, video, written, mainVars>>
    /\ UNCHANGED <<transVars, trackVars, extVars, enhVars>>

\* main: successful += 1 or failed += 1
RecordResult ==
    /\ run_pc = "returned"
    /\ results' = Append(results, file_ok)
    /\ successful' = IF file_ok THEN successful + 1 ELSE successful
    /\ failed' = IF file_ok THEN failed ELSE failed + 1
    /\ run_pc' = "loop"
    /\ UNCHANGED <<file_ok, fileVars, entry, num_files, file_idx, exit_code>>
    /\ UNCHANGED <<transVars, trackVars, extVars, enhVars>>

\* main: the loop is over and the process ends
ExitRun ==
    /\ run_pc = "loop"
    /\ num_files > 0
    /\ file_idx = num_files
    /\ exit_code' = ExitCode(entry, failed)
    /\ run_pc' = "exited"
    /\ UNCHANGED <<file_ok, fileVars, entry, num_files, file_idx, results, successful, failed>>
    /\ UNCHANGED <<transVars, trackVars, extVars, enhVars>>

NextRun ==
    \/ NoFiles
    \/ StartFile
    \/ GetTrack
    \/ ExtractSubtitle
    \/ ExtractDialogue
    \/ TranslateLines
    \/ CreateAndValidate
    \/ CreateCleanMkv
    \/ VerifyTemp
    \/ CreateBackup
    \/ MoveOverOriginal
    \/ VerifyReplaced
    \/ RestoreBackup
    \/ RemoveBackup
    \/ RecordResult
    \/ ExitRun

SpecRun == InitRun /\ [][NextRun]_vars

\* ------------------------------------------------------------------------
\* translation/enhancements.py on its own: preprocess_for_translation and
\* postprocess_translation applied to one text
\* ------------------------------------------------------------------------

MaxTextLen == 3

MaxPasses == 2

\* the characters of the short texts
EnhanceChars == {"a", ".", " ", "!"}

RECURSIVE TextsUpTo(_)
\* every text of at most n of these characters
TextsUpTo(n) ==
    IF n = 0 THEN {""}
    ELSE TextsUpTo(n - 1) \cup {t \o c : t \in TextsUpTo(n - 1), c \in EnhanceChars}

\* words in and out of the phrase tables, in the three capitalisations and mixed
PhraseWords ==
    {"yes", "Yes", "YES", "yEs", "wait", "WAIT", "thank you", "Thank you", "THANK YOU",
     "ok", "yesterday", "Hello world", "a piece of cake", "Yes\nno", "Yes\n"}

\* what follows the word
PhraseEndings == {"", ".", "!", "?!", " .", "..."}

\* what surrounds it
PhrasePads == {"", " "}

\* outputs of the backend that hold the patterns of the postprocessing
BackendTexts ==
    {"- Nie! - Nie!", "- Tak. - Tak.", "Tak, tak.", "Co!!!!", "Tak .",
     "To jest normalne zdanie.", "   ", " Tak", "Tak. ."}

EnhanceTexts ==
    TextsUpTo(MaxTextLen)
    \cup {d \o w \o e \o d : d \in PhrasePads, w \in PhraseWords, e \in PhraseEndings}
    \cup BackendTexts

InitEnhance ==
    /\ enh_text \in EnhanceTexts
    /\ enh_pc = "ready"
    /\ enh_pre = << >>
    /\ enh_post = << >>
    /\ dialogue_lines = << >>
    /\ batch_size = 1
    /\ enable_enhancements = TRUE
    /\ model_key = "allegro"
    /\ pc = "idle"
    /\ i = 0
    /\ translations = << >>
    /\ calls = << >>
    /\ preprocessing_stats = NoStats
    /\ progress_callback = TRUE
    /\ run = 1
    /\ progress_log = << >>
    /\ returned_lines = << >>
    /\ error = "none"
    /\ track_info = << >>
    /\ enable_ocr = FALSE
    /\ ocr_available = FALSE
    /\ sel_pc = "idle"
    /\ eng_track = 0
    /\ subs = << >>
    /\ ev_pos = 0
    /\ unique_subs = << >>
    /\ last_text = << >>
    /\ current_group_start = 0
    /\ current_group_end = 0
    /\ ext_pc = "idle"
    /\ extracted = << >>
    /\ clean_subs = << >>
    /\ legacy_lines = << >>
    /\ RunIdle

\* the text the next postprocess_translation call is given: the input, then
\* what the call before returned
NextPostInput(text, post) == IF post = << >> THEN text ELSE post[Len(post)]

\* preprocess_for_translation(text)
Preprocess ==
    /\ enh_pc = "ready"
    /\ enh_pre = << >>
    /\ enh_pre' = <<preprocess_for_translation(enh_text)>>
    /\ UNCHANGED <<enh_text, enh_pc, enh_post>>
    /\ UNCHANGED <<transVars, trackVars, extVars, runVars>>

\* postprocess_translation(text), and again on its own result
Postprocess ==
    /\ enh_pc = "ready"
    /\ Len(enh_post) < MaxPasses
    /\ enh_post' = Append(enh_post, postprocess_translation(NextPostInput(enh_text, enh_post)))
    /\ UNCHANGED <<enh_text, enh_pc, enh_pre>>
    /\ UNCHANGED <<transVars, trackVars, extVars, runVars>>

NextEnhance ==
    \/ Preprocess
    \/ Postprocess

SpecEnhance == InitEnhance /\ [][NextEnhance]_vars

\* ------------------------------------------------------------------------
\* Properties of the translation orchestrator (checked under Spec)
\* ------------------------------------------------------------------------

\* the number of input lines and the number of lines of backend call c
NumLines == Len(dialogue_lines)

CeilDiv(n, b) == IF n % b = 0 THEN n \div b ELSE n \div b + 1

\* the position in the input of line k of backend call c
LineOfCall(c, k) == (c - 1) * batch_size + k

\* the candidate translation of line k of call c: what the backend decoded,
\* cleaned up by postprocessing when enhancements are enabled
Candidate(c, k) ==
    IF enable_enhancements THEN Postprocessed[calls[c].decoded[k]] ELSE calls[c].decoded[k]

\* whether a text is resolved by table lookup: its lower-cased base text,
\* stripped of its trailing punctuation, is a key of one of the two tables
TableResolvedText == [t \in BatchingTexts \cup SafeguardTexts |->
                         normalize_for_lookup(t).base
                             \in DOMAIN PHRASE_BASE_MAP \cup DOMAIN MULTI_WORD_PHRASES]

\* C1: translate_dialogue_lines returns, for every input and batch size, a
\* list of the same length with the same (start_ms, end_ms) pairs in order.
C1_SameLengthAndTiming ==
    pc \in {"returned", "raised"} =>
        /\ pc = "returned"
        /\ Len(returned_lines) = Len(dialogue_lines)
        /\ \A k \in 1..Len(dialogue_lines) :
              /\ returned_lines[k].start_ms = dialogue_lines[k].start_ms
              /\ returned_lines[k].end_ms = dialogue_lines[k].end_ms

\* C2: a backend call that raises for one batch does not abort the run.
C2_BatchFailureDoesNotAbort == ~(pc = "raised" /\ error = "backend")

\* C3: for every line not resolved by table lookup the final text is the
\* original text, unmodified, when the candidate is empty after trimming or
\* is shorter than 2 characters while the trimmed original is longer than 5,
\* and is the candidate in every other case.
C3_FallbackSafeguard ==
    \A c \in 1..Len(calls) : \A k \in 1..Len(calls[c].decoded) :
        LET n == LineOfCall(c, k)
            original == dialogue_lines[n].text
            candidate == Candidate(c, k)
        IN  ~(enable_enhancements /\ TableResolvedText[original]) =>
                translations[n] =
                    IF strip(candidate) = "" THEN original
                    ELSE IF Len(strip(candidate)) < 2 /\ Len(strip(original)) > 5
                         THEN original
                    ELSE candidate

\* C3 witness: a long original with surrounding whitespace whose candidate
\* was one character came back unmodified, and a short one kept its candidate
C3_Witness ==
    /\ enable_enhancements
    /\ Len(calls) = 1 /\ Len(translations) = 2
    /\ dialogue_lines[1].text = "  Monday  " /\ calls[1].decoded[1] = " A "
    /\ translations[1] = "  Monday  "
    /\ dialogue_lines[2].text = " abcde " /\ calls[1].decoded[2] = " A "
    /\ translations[2] = "A"

\* C4: the texts go to the backend in consecutive batches of size at most B,
\* ceil(n/B) calls, all but the last of size exactly B; element i of the
\* result is the translation of input text i; an empty input returns an
\* empty list without a backend call.
C4_Batching ==
    /\ \A c \in 1..Len(calls) :
          /\ c <= CeilDiv(NumLines, batch_size)
          /\ Len(calls[c].sent) =
                 IF c < CeilDiv(NumLines, batch_size) THEN batch_size
                 ELSE NumLines - (c - 1) * batch_size
          /\ Len(calls[c].decoded) = Len(calls[c].sent)
          /\ \A k \in 1..Len(calls[c].sent) :
                calls[c].sent[k] =
                    BatchSent(<<dialogue_lines[LineOfCall(c, k)].text>>,
                              enable_enhancements, model_key)[1]
    /\ (pc = "returned" /\ error = "none") =>
          /\ Len(calls) = CeilDiv(NumLines, batch_size)
          /\ Len(translations) = NumLines
          /\ Len(returned_lines) = NumLines
          /\ \A c \in 1..Len(calls) : \A k \in 1..Len(calls[c].decoded) :
                /\ translations[LineOfCall(c, k)] =
                       _translate_batch(<<dialogue_lines[LineOfCall(c, k)].text>>,
                                        <<calls[c].decoded[k]>>, enable_enhancements)[1]
                /\ returned_lines[LineOfCall(c, k)].text = translations[LineOfCall(c, k)]

\* C4 witness: three lines in batches of two came back after two calls, of
\* sizes two and one
C4_Witness ==
    /\ pc = "returned" /\ error = "none"
    /\ NumLines = 3 /\ batch_size = 2
    /\ Len(calls) = 2 /\ Len(calls[1].sent) = 2 /\ Len(calls[2].sent) = 1
    /\ Len(returned_lines) = 3

\* C5: a line resolved by table lookup is never subject to the fallback
\* safeguard: its final text is the table's text whatever the backend
\* returned for it.
C5_TableLookupTrusted ==
    \A c \in 1..Len(calls) : \A k \in 1..Len(calls[c].decoded) :
        LET n == LineOfCall(c, k)
            original == dialogue_lines[n].text
        IN  (enable_enhancements /\ TableResolvedText[original]) =>
                translations[n] = Preprocessed[original].text

\* C5 witness: "Yes." came back as "Tak." although the backend returned an
\* empty string for it
C5_Witness ==
    \E c \in 1..Len(calls) : \E k \in 1..Len(calls[c].decoded) :
        /\ LineOfCall(c, k) <= Len(translations)
        /\ dialogue_lines[LineOfCall(c, k)].text = "Yes."
        /\ calls[c].decoded[k] = ""
        /\ translations[LineOfCall(c, k)] = "Tak."

\* C6: cancellation is acted on between batches only, and a cancelled run
\* returns the translations of the completed batches instead of raising.
C6_CancelReturnsCompletedBatches ==
    error = "KeyboardInterrupt" =>
        /\ pc = "returned"
        /\ Len(translations) = Min(Len(calls) * batch_size, NumLines)

\* ------------------------------------------------------------------------
\* Properties of the track selector (checked under SpecTrack)
\* ------------------------------------------------------------------------

\* the positions of the English subtitle candidates of track_info
EnglishCandidates ==
    {n \in 1..Len(track_info) :
        track_info[n].type = "subtitles" /\ track_info[n].language \in {"eng", "en"}}

\* the candidates whose name carries no non-dialogue marker
DialogueCandidates == {n \in EnglishCandidates : ~NameHasMarker[track_info[n].track_name]}

ImageCodec == [c \in TrackCodecs |-> CodecIn(c, IMAGE_CODECS)]

TextCodec == [c \in TrackCodecs |-> CodecIn(c, TEXT_CODECS)]

IsImageTrack(n) == ImageCodec[track_info[n].codec]

IsTextTrack(n) == TextCodec[track_info[n].codec]

OcrUsable == enable_ocr /\ ocr_available

\* C7: with two or more English candidates of which at least one text-codec
\* track has no marker in its name, the track returned is a dialogue track
\* that is not image-based, never a track with a marker, whatever the order.
C7_DialogueTrackPreferred ==
    (/\ sel_pc = "done"
     /\ Cardinality(EnglishCandidates) >= 2
     /\ \E n \in DialogueCandidates : IsTextTrack(n)) =>
        /\ eng_track \in DialogueCandidates
        /\ ~IsImageTrack(eng_track)

\* C7 witness: the signs track is listed first and the dialogue track, listed
\* second, was returned
C7_Witness ==
    /\ sel_pc = "done"
    /\ Len(track_info) = 2
    /\ track_info[1].language = "eng" /\ track_info[1].track_name = "English Signs/Songs"
    /\ track_info[1].codec = "ass"
    /\ track_info[2].language = "eng" /\ track_info[2].track_name = "English Full Dialogue"
    /\ track_info[2].codec = "ass"
    /\ eng_track = 2

C9_AllSignsRejected ==
    (/\ sel_pc = "done"
     /\ EnglishCandidates /= {}
     /\ DialogueCandidates = {}) => eng_track = 0

\* C10: with two or more English candidates whose dialogue candidates are all
\* image-based, one of those is returned only if OCR is enabled and
\* available; otherwise None is returned.
C10_ImageDialogueNeedsOcr ==
    (/\ sel_pc = "done"
     /\ Cardinality(EnglishCandidates) >= 2
     /\ DialogueCandidates /= {}
     /\ \A n \in DialogueCandidates : IsImageTrack(n)) =>
        IF OcrUsable THEN eng_track \in DialogueCandidates ELSE eng_track = 0

\* the candidates _separate_by_codec classes as text
TextClassCandidates ==
    {n \in EnglishCandidates : ClassOfCodec[track_info[n].codec] = "text"}

\* the candidates that are not forced
NonForcedCandidates == {n \in EnglishCandidates : ~track_info[n].forced_track}

\* C11: with two or more English candidates none of which is a dialogue
\* candidate, the track returned is the first text-based non-dialogue
\* candidate; without one, an image-based one when OCR is enabled and
\* available; otherwise the first non-forced candidate; otherwise the first
\* candidate overall.
C11_FallbackOrder ==
    (/\ sel_pc = "done"
     /\ Cardinality(EnglishCandidates) >= 2
     /\ DialogueCandidates = {}) =>
        IF TextClassCandidates /= {} THEN eng_track = MinOf(TextClassCandidates)
        ELSE IF OcrUsable THEN eng_track = MinOf(EnglishCandidates)
        ELSE IF NonForcedCandidates /= {} THEN eng_track = MinOf(NonForcedCandidates)
        ELSE eng_track = MinOf(EnglishCandidates)

\* C12: find_english_track leaves every track descriptor of its input
\* unchanged.
C12_TrackInfoUnchanged == [][track_info' = track_info]_vars

\* C29: an image-codec track is returned only if OCR is enabled and available,
\* and a returned image-codec track carries requires_ocr = True; for every
\* candidate list, a single image-based candidate included.
C29_ImageTrackOnlyWithOcr ==
    (sel_pc = "done" /\ eng_track /= 0 /\ IsImageTrack(eng_track)) =>
        /\ OcrUsable
        /\ track_info[eng_track].requires_ocr

\* ------------------------------------------------------------------------
\* Properties of the dialogue extractor (checked under SpecExtract)
\* ------------------------------------------------------------------------

\* the extraction is past _deduplicate_events
Deduplicated == ext_pc \in {"filter", "parsed", "stopped", "translate", "written"}

\* the positions of the document whose stripped plain text has 2 characters or more
LongEnough == {k \in 1..Len(subs) : Len(CleanText[subs[k].kind]) >= 2}

\* the last such position before k, 0 for none
PrevLong(k) == MaxOf({0} \cup {p \in LongEnough : p < k})

\* the positions whose text differs from the text of the position kept before
GroupLeaders ==
    {k \in LongEnough :
        \/ PrevLong(k) = 0
        \/ CleanText[subs[PrevLong(k)].kind] /= CleanText[subs[k].kind]}

\* the positions merged into the group that position l opens: the kept
\* positions from l on with no other leader in between
GroupOf(l, leaders, long) == {k \in long : k >= l /\ \A m \in leaders : m > l => k < m}

\* the kept event starts at the first start of the group of l, ends at the
\* maximum end of the group and carries its text
KeptAgrees(kept, l, leaders, long) ==
    /\ kept.start = subs[l].start
    /\ kept.end = MaxOf({subs[k].end : k \in GroupOf(l, leaders, long)})
    /\ kept.text = CleanText[subs[l].kind]

\* the kept events are the groups of the leaders, in order
DedupAgrees(unique, leaders, long) ==
    /\ Len(unique) = Cardinality(leaders)
    /\ \A l \in leaders :
        KeptAgrees(unique[Cardinality({m \in leaders : m <= l})], l, leaders, long)
    /\ \A j \in 1..(Len(unique) - 1) : unique[j].text /= unique[j + 1].text

\* C13: after deduplication there is one kept event per run of events with
\* equal stripped plain text (events with a text shorter than 2 characters
\* dropped first); it starts at the run's first start, ends at the maximum end
\* of the run and carries the run's text, and no two adjacent kept events have
\* equal text.
C13_Deduplication == Deduplicated => DedupAgrees(unique_subs, GroupLeaders, LongEnough)

\* three "Hello" events at [0,1000], [1000,2000], [2000,3500] gave the one
\* line (0, 3500, "Hello")
C13_Witness ==
    /\ ext_pc = "parsed"
    /\ subs = <<Event(<<"Default", "Hello">>, <<0, 1000>>),
                Event(<<"Default", "Hello">>, <<1000, 2000>>),
                Event(<<"Default", "Hello">>, <<2000, 3500>>)>>
    /\ extracted = <<[start_ms |-> 0, end_ms |-> 3500, text |-> "Hello"]>>

\* extract_dialogue_lines has returned
Extracted == ext_pc \in {"parsed", "stopped", "translate", "written"}

\* the (style, text) the deduplicated events of the runs can carry
KeptKinds == {<<k[1], strip(plaintext(k[2]))>> : k \in EventKinds}

\* the style holds none of the markers, whatever its case, and the text is not
\* empty after cleanup; computed once for every kept (style, text)
KindPasses == [c \in KeptKinds |-> ~HasMarker(c[1]) /\ strip(plaintext(c[2])) /= ""]

\* the cleaned text of every kept (style, text), computed once
KindText == [c \in KeptKinds |-> strip(plaintext(c[2]))]

PassesFilter(event) == KindPasses[<<event.style, event.text>>]

\* the line an event gives
LineOf(event) ==
    [start_ms |-> event.start, end_ms |-> event.end,
     text |-> KindText[<<event.style, event.text>>]]

RECURSIVE LinesOf(_)
LinesOf(events) ==
    IF events = << >> THEN << >> ELSE <<LineOf(events[1])>> \o LinesOf(Tail(events))

\* C14: the extracted lines are the lines of the deduplicated events whose
\* style holds none of sign, song, title, op, ed (in any case) and whose
\* cleaned text is not empty, in order; no extracted line has an empty text.
C14_DialogueFiltering ==
    Extracted =>
        /\ extracted = LinesOf(SelectSeq(unique_subs, PassesFilter))
        /\ \A j \in 1..Len(extracted) : extracted[j].text /= ""

\* a signs event and a dialogue event were deduplicated, and only the
\* dialogue event gave a line
C14_Witness ==
    /\ Extracted
    /\ Len(unique_subs) = 2
    /\ unique_subs[1].style = "Signs"
    /\ unique_subs[2].style = "Default"
    /\ extracted = <<LineOf(unique_subs[2])>>

\* C15: every extracted line, and every line handed on to the translation,
\* ends after it starts and starts at 0 or later.
C15_PositiveDuration ==
    /\ Extracted =>
        \A j \in 1..Len(extracted) :
            extracted[j].end_ms > extracted[j].start_ms /\ extracted[j].start_ms >= 0
    /\ \A j \in 1..Len(dialogue_lines) :
        dialogue_lines[j].end_ms > dialogue_lines[j].start_ms /\ dialogue_lines[j].start_ms >= 0

\* C16: when no dialogue line survives, extract_dialogue_lines has returned the
\* empty list and the pipeline never enters the translation: no model is
\* loaded and the backend is never called.
C16_EmptyStopsBeforeTranslation ==
    (Extracted /\ SelectSeq(unique_subs, PassesFilter) = << >>) =>
        /\ extracted = << >>
        /\ ext_pc /= "translate"
        /\ pc = "idle"
        /\ calls = << >>

\* a document that holds events, none of them dialogue, stopped the pipeline
C16_Witness ==
    /\ ext_pc = "stopped"
    /\ subs /= << >>
    /\ unique_subs /= << >>
    /\ extracted = << >>
    /\ pc = "idle"

\* the two writers have saved their document from these lines
WrittenFrom ==
    IF ext_pc = "written" THEN extracted
    ELSE IF ext_pc = "legacy_written" THEN legacy_lines
    ELSE << >>

\* the text with its line breaks written as the marker \N of the format
EncodedBreaks(text) == Replace(text, "\n", "\\N", 1)

TableKeys == DOMAIN PHRASE_BASE_MAP \cup DOMAIN MULTI_WORD_PHRASES

TableEntry(key) ==
    IF key \in DOMAIN PHRASE_BASE_MAP THEN PHRASE_BASE_MAP[key] ELSE MULTI_WORD_PHRASES[key]

\* the trailing punctuation run of a stripped text
PunctOf(stripped) ==
    Slice(stripped, Len(stripped) - TrailingRun(stripped, LookupPunct) + 1, Len(stripped))

\* the stripped text without its trailing punctuation run and the whitespace
\* before it
BaseOf(stripped) ==
    strip(Slice(stripped, 1, Len(stripped) - TrailingRun(stripped, LookupPunct)))

\* the translation in the pattern of the base: UPPER, Title or lower
Recapitalised(translation, base) ==
    IF isupper(base) THEN upper(translation)
    ELSE IF InClass(CharAt(base, 1), UpperAlpha)
         THEN upper(CharAt(translation, 1)) \o Tail(translation)
    ELSE translation

\* what the claim says preprocess_for_translation returns for a text whose
\* base and punctuation are these
LookupAgrees(result, base, punct) ==
    /\ result.was_mapped <=> lower(base) \in TableKeys
    /\ result.was_mapped => result.text = Recapitalised(TableEntry(lower(base)), base) \o punct

\* C17: preprocess_for_translation skips the backend exactly when the text,
\* stripped of surrounding whitespace and of its trailing punctuation run and
\* lower-cased, is a key of one of the two phrase tables, and then returns
\* the table's translation in the capitalisation of the input with the
\* input's trailing punctuation.
C17_TableLookup ==
    enh_pre /= << >> =>
        LookupAgrees(enh_pre[1], BaseOf(strip(enh_text)), PunctOf(strip(enh_text)))

\* C18: postprocess_translation applied to its own result returns that result.
C18_PostprocessIdempotent == Len(enh_post) >= 2 => enh_post[2] = enh_post[1]

\* none of the three patterns of the postprocessing matches the text
NoPatternIn(text) ==
    /\ _remove_dialogue_markers(text) = text
    /\ _remove_repetition(text) = text
    /\ _normalize_punctuation(text) = text

\* C19: postprocess_translation returns "" for an empty or whitespace-only
\* text, and returns every other text unchanged when none of the three
\* patterns matches it.
C19_PostprocessContract ==
    Len(enh_post) >= 1 =>
        /\ strip(enh_text) = "" => enh_post[1] = ""
        /\ (strip(enh_text) /= "" /\ NoPatternIn(enh_text) /\ NoPatternIn(strip(enh_text)))
               => enh_post[1] = enh_text

\* ------------------------------------------------------------------------
\* Further properties of the translation orchestrator (C25 under Spec, the
\* others under SpecTexts)
\* ------------------------------------------------------------------------

\* the positions in the input of the lines of batch c
BatchPositions(c) ==
    {n \in 1..NumLines : (c - 1) * batch_size < n /\ n <= c * batch_size}

\* the lines of batch c that the table lookup does not resolve
BackendPositions(c) ==
    {n \in BatchPositions(c) : ~(enable_enhancements /\ TableResolvedText[dialogue_lines[n].text])}

\* C25: every backend call carries only the lines of its batch that the table
\* lookup did not resolve (so it is never made for a batch resolved entirely
\* by the tables), and the backend returns exactly that many strings.
C25_BackendSkippedForTableLines ==
    \A c \in 1..Len(calls) :
        /\ Len(calls[c].sent) = Cardinality(BackendPositions(c))
        /\ Len(calls[c].sent) > 0
        /\ Len(calls[c].decoded) = Len(calls[c].sent)


\* what the callback has received after c batches: (1, total) .. (c, total)
CallbackLog(c, total) == [b \in 1..c |-> <<b, total>>]

\* the translation of line k of call c, from the sent line and the backend's
\* string alone
ResultOfCall(c, k) ==
    _translate_batch(<<dialogue_lines[LineOfCall(c, k)].text>>,
                     <<calls[c].decoded[k]>>, enable_enhancements)[1]

LinesPreprocessed == IF enable_enhancements THEN NumLines ELSE 0

\* C27: the statistics are reset per invocation: at the start of every
\* translate_texts run the four counters are zero, and after a run
\* total_processed is the number of lines preprocessed in that run.
C27_StatsResetPerInvocation ==
    /\ pc = "translating" /\ i = 0 => preprocessing_stats = NoStats
    /\ pc = "returned" => preprocessing_stats.total_processed = LinesPreprocessed


\* Properties of the timing validation (C21 under SpecValidate, C28 under
\* SpecExtract)
\* the events of the original that the validation is about: a style without
\* marker and a plain text of at least 2 characters
CheckedEvents == {n \in 1..Len(subs) : ~StyleHasMarker[subs[n].kind]
                                        /\ Len(CleanText[subs[n].kind]) >= 2}

\* the events of the cleaned file that carry the text of event n of the original
Occurrences(n) ==
    {j \in 1..Len(clean_subs) : CleanedKey(clean_subs[j].text) = CleanText[subs[n].kind]}

\* event n of the original lies in the interval of cleaned event j, 50 ms
\* allowed on each bound
Covers(j, n) ==
    /\ clean_subs[j].start <= subs[n].start + 50
    /\ clean_subs[j].end >= subs[n].end - 50

\* some event of the original has its text in the cleaned file and no
\* occurrence of it covers the event
TimingGap ==
    \E n \in CheckedEvents :
        /\ Occurrences(n) /= {}
        /\ \A j \in Occurrences(n) : ~Covers(j, n)

\* C21: the timing validation fails exactly when some event of the original
\* with a style without marker and a plain text of at least 2 characters has
\* its text in the cleaned file and no occurrence of that text with
\* clean_start <= start + 50 and clean_end >= end - 50.
C21_ValidationFailsOnGapOnly ==
    /\ ext_pc \in {"validated", "proc_validated"} => ~TimingGap
    /\ ext_pc \in {"timing_gap", "proc_mismatch"} => TimingGap


\* C28: validating the dialogue-only file rebuilt from the extractor's output
\* against the original never reports a timing gap: every event of the
\* original with a style without marker and a plain text of at least 2
\* characters whose text is in the rebuilt file lies, within the tolerance, in
\* the interval of a rebuilt event with that text, whatever the file order.
C28_RebuiltFileCoversOriginal ==
    /\ ext_pc = "written" => ~TimingGap
    /\ ext_pc /= "timing_gap"


\* Properties of the run over files (checked under SpecRun)
\* C22: the original path of a file is written only after the timing
\* validation of its cleaned subtitles has passed and the staged output has
\* been built and verified; after a timing gap nothing is muxed and the
\* original path is never written.
C22_ReplacedOnlyAfterValidation ==
    /\ written => validation = "passed" /\ staged \in {"verified", "moved"}
    /\ validation = "gap" => staged = "none" /\ ~written /\ video = "original"

\* a file whose validation passed has been replaced by the staged output
C22_Witness ==
    /\ run_pc = "returned"
    /\ file_ok
    /\ validation = "passed"
    /\ video = "clean"

\* C23: after a non-zero exit status of the container tool the pipeline of
\* that file returns False and never reaches parsing, translation or writing.
C23_NonZeroExitStopsPipeline ==
    extract_rc \notin {-1, 0} =>
        /\ run_pc \in {"returned", "loop", "exited"}
        /\ run_pc = "returned" => ~file_ok
        /\ run_pc /= "returned" => ~results[file_idx]
        /\ validation = "none"
        /\ staged = "none"
        /\ ~written

\* the container tool ended with status 2 and process_mkv_file has returned
C23_Witness ==
    /\ extract_rc = 2
    /\ run_pc = "returned"

\* C24: for a run over one or more files the exit code of the process is 0
\* when every file succeeded and 1 when at least one failed.
C24_ExitCode ==
    (run_pc = "exited" /\ num_files > 0) =>
        exit_code = IF \A k \in 1..Len(results) : results[k] THEN 0 ELSE 1

\* C30: the replacement is backed up and reversible: the original path is
\* overwritten only with the backup holding the original; a replace step that
\* returned False after the overwrite has left the original at the original
\* path or at the backup path, and at the original path once the backup was
\* moved back; the backup is gone only after a verified replacement or after
\* it was moved back.
C30_ReplaceReversible ==
    /\ run_pc \in {"verify_replaced", "restore", "unlink"} =>
           written /\ backup = "original"
    /\ (written /\ run_pc = "returned" /\ ~file_ok) =>
           video = "original" \/ backup = "original"
    /\ (written /\ run_pc = "returned" /\ backup = "none") =>
           IF file_ok THEN video = "clean" ELSE video = "original"

\* the verification of the replaced file failed and the backup was moved back
C30_Witness ==
    /\ run_pc = "returned"
    /\ staged = "moved"
    /\ ~file_ok
    /\ video = "original"
    /\ backup = "none"

====
